---- MODULE Spec2Model ----
(***************************************************************************)
(* The RLLM driver (src/src/rlm.ts, RLLM.completion) and the Sandbox it    *)
(* runs LLM-authored programs in (src/src/sandbox.ts).                     *)
(*                                                                         *)
(* Spec is one call of completion().  The Driver is an async function:     *)
(* its steps are the stretches of code between two awaits (a root          *)
(* CompletionService call, a Sandbox.execute).  A program run by           *)
(* Sandbox.execute is a sequence of statements, each a step of its own;    *)
(* the statements modelled are the ones that touch Sandbox state: calls of *)
(* the injected bindings and top-level assignments.  A root response is    *)
(* its raw content, its usage and the number of repl blocks findCodeBlocks *)
(* extracts from it.                                                       *)
(*                                                                         *)
(* SandboxSpec is a Sandbox used on its own through execute() and reset(), *)
(* with programs that may throw or fail to compile.                        *)
(*                                                                         *)
(* TurnSpec is one call of completion() followed call by call, each        *)
(* execute() taken as one step, with the message history, the messages of  *)
(* every root call and the events handed to onEvent.                       *)
(*                                                                         *)
(* BatchSpec is a Sandbox whose programs call llm_query or                 *)
(* llm_query_batched: the client calls in flight complete in any order,    *)
(* each completion running the rest of its llmQuery as one step.           *)
(*                                                                         *)
(* AsyncSpec is a Sandbox whose programs may leave timers and unawaited    *)
(* sub-LLM calls behind, loop for ever, or await what never settles;       *)
(* FairAsyncSpec adds that the client answers and timers fire.             *)
(*                                                                         *)
(* PromptSpec is buildUserPrompt called on its own with prompts that hold  *)
(* the characters String.prototype.replace gives a meaning to; ParseSpec   *)
(* is findCodeBlocks and formatIteration called on responses made of       *)
(* fences, newlines and text (src/src/prompts.ts, src/src/parsing.ts).     *)
(*                                                                         *)
(* GenerateSpec is RLLM.generateObject as its declarations and tests       *)
(* describe it (src/src/types.ts, src/src/sandbox.test.ts).                *)
(*                                                                         *)
(* PairSpec is two calls of completion() on one RLLM instance, taking      *)
(* turns at their awaits.                                                  *)
(***************************************************************************)
EXTENDS Integers, Sequences, FiniteSets, Bags, TLC

\* ------------------------------------------------------------------ bounds
MaxIter == 2      \* largest configured maxIterations
MaxBlocks == 2    \* most repl blocks in one root response
MaxOps == 2       \* most statements in one program
MaxExecs == 3     \* most execute() calls on a Sandbox used on its own
MaxTurnExecs == 2 \* most execute() calls of a completion followed call by call
MaxBatch == 2     \* most prompts in one llm_query_batched call
MaxPromptPieces == 3 \* most pieces a caller's prompt is made of
MaxTextPieces == 5   \* most pieces a root response is made of
MaxRetries == 2      \* largest maxRetries option of a generateObject call
PairIterations == 1  \* maxIterations of an instance two completions share

\* ------------------------------------------------------------- JS values
Null == "<null>"            \* JS null
Absent == "<absent>"        \* a property that is not in an object
Undefined == "<undefined>"  \* JS undefined

AnswerVals == {"", "a"}     \* string arguments of FINAL

\* Arguments of FINAL that are objects, not strings: {} (no message) and
\* { message: 42 } (message not a string).
InvalidShapes == {"<object {}>", "<object {message: 42}>"}

\* String(value): a string is itself, a plain object is "[object Object]".
String(v) == IF v \in InvalidShapes THEN "[object Object]" ELSE v

\* formatIteration's default maxCharLength.
maxCharLength == 20000

\* A printed line of maxCharLength + 1 characters, and what slice leaves
\* of it.
BigLine == "<a line of 20001 characters>"
BigLineCut == "<the first characters of a line of 20001 characters>"

\* Faults of a program: an exception thrown while it runs, or code that
\* vm.Script cannot compile.
RuntimeFault == "TypeError: boom"
TimeoutFault == "Error: Script execution timed out after 300000ms"
SyntaxFault == "SyntaxError: Unexpected token"
VarNames == {"x"}           \* names a program assigns at top level
LocalVals == {"a"}          \* String(value) of an assigned variable
Contents == {"r1", "r2"}    \* raw content of a root response

ZeroUsage == [promptTokens |-> 0, completionTokens |-> 0, totalTokens |-> 0]

\* usage reported with a root response
Usages == { [promptTokens |-> 1, completionTokens |-> 2, totalTokens |-> 4] }

\* usage reported with a sub-LLM response
SubUsages == { [promptTokens |-> 10, completionTokens |-> 20, totalTokens |-> 40] }

\* ------------------------------------------------------------- statements
Stmt(op, arg, val, usage) == [op |-> op, arg |-> arg, val |-> val, usage |-> usage]

Stmts ==
    {Stmt("llm_query", "ok", p, u) : p \in {"p"}, u \in SubUsages}
    \cup {Stmt("llm_query", "fail", "p", ZeroUsage)}
    \cup {Stmt("FINAL", v, Absent, ZeroUsage) : v \in AnswerVals}
    \cup {Stmt("FINAL_VAR", n, Absent, ZeroUsage) : n \in VarNames}
    \cup {Stmt("assign", n, v, ZeroUsage) : n \in VarNames, v \in LocalVals}

\* Statements of programs that go wrong: a final-answer call with an
\* argument that is no string message, and a statement that throws.
FaultyStmts ==
    {Stmt("FINAL", v, Absent, ZeroUsage) : v \in InvalidShapes}
    \cup {Stmt("throw", RuntimeFault, Absent, ZeroUsage)}

\* Assignments of a second value to a name.
Reassignments == {Stmt("assign", n, "b", ZeroUsage) : n \in VarNames}

AllStmts == Stmts \cup FaultyStmts \cup Reassignments

\* ------------------------------------------------------------- Sandbox
NoLocals == [n \in VarNames |-> Absent]

\* The fields of a Sandbox after construction.
NewSandbox ==
    [context |-> Null, stdout |-> <<>>, stderr |-> <<>>, llmCalls |-> <<>>,
     finalAnswer |-> Null, locals |-> NoLocals]

\* The context a caller loads.
ContextPayload == "<the context>"

\* Sandbox.loadContext.
loadContext(sb, contextPayload) == [sb EXCEPT !.context = contextPayload]

\* createContext: every execute starts by emptying stdout, stderr and
\* llmCalls and setting finalAnswer to null; locals are kept.
createContext(sb) == [sb EXCEPT !.stdout = <<>>, !.stderr = <<>>, !.llmCalls = <<>>, !.finalAnswer = Null]

\* The content the sub-LLM client answers a prompt with.
ResponseTo(prompt) == "re: " \o prompt

\* The error the sub-LLM client fails with.
ClientError == "Error: client failed"

\* One entry of llmCalls.
LLMCall(prompt, content, usage) == [prompt |-> prompt, response |-> content, usage |-> usage]

\* llmQuery: a record is pushed when client.complete resolved; the catch
\* branch returns the error string and pushes nothing.
llmQueryOverwriting(sb, st) ==
    IF st.arg = "ok"
    THEN [sb EXCEPT !.llmCalls = <<LLMCall(st.val, ResponseTo(st.val), st.usage)>>]
    ELSE sb

llmQuery(sb, st) ==
    IF st.arg = "ok"
    THEN [sb EXCEPT !.llmCalls = Append(@, LLMCall(st.val, ResponseTo(st.val), st.usage))]
    ELSE sb

\* The FINAL binding: this.finalAnswer = String(answer).
FINAL(sb, answer) == [sb EXCEPT !.finalAnswer = String(answer)]

NotFound(name) == "Error: Variable '" \o name \o "' not found"

\* this.locals is a plain object: the "in" operator also finds the members
\* it inherits from Object.prototype, here by their String().
ObjectPrototype == [toString |-> "function toString() { [native code] }"]

\* The value FINAL_VAR stores: the name is looked up with "in" in
\* this.locals, the variables captured at the end of earlier executions.
FinalVarValue(sb, name) ==
    IF name \in VarNames /\ sb.locals[name] # Absent THEN sb.locals[name]
    ELSE IF name \in DOMAIN ObjectPrototype THEN ObjectPrototype[name]
    ELSE NotFound(name)

\* The FINAL_VAR binding.
FINAL_VAR(sb, name) == [sb EXCEPT !.finalAnswer = FinalVarValue(sb, name)]

\* The value a statement gives a final-answer binding, Null for the others.
SetBy(sb, st) ==
    CASE st.op = "FINAL" -> String(st.arg)
      [] st.op = "FINAL_VAR" -> FinalVarValue(sb, st.arg)
      [] OTHER -> Null

\* The wrapper's catch of an exception of the user code: the error's name
\* and message, then the head of its stack, go to stderr.
Caught(sb, e) == [sb EXCEPT !.stderr = @ \o <<e, "    at rlm-sandbox.js">>]

\* The print binding: one line of stdout.
print(sb, line) == [sb EXCEPT !.stdout = Append(@, line)]

\* The Sandbox after one statement of the running program; an assignment
\* changes the vm context only.
RunStmt(sb, st) ==
    CASE st.op = "llm_query" -> llmQuery(sb, st)
      [] st.op = "FINAL" -> FINAL(sb, st.arg)
      [] st.op = "FINAL_VAR" -> FINAL_VAR(sb, st.arg)
      [] st.op = "throw" -> Caught(sb, st.arg)
      [] st.op = "print" -> print(sb, st.arg)
      [] st.op = "print_context" -> print(sb, sb.context)
      [] OTHER -> sb

\* The globals of the vm context after one statement.
RunStmtGlobals(g, st) ==
    IF st.op = "assign" THEN [g EXCEPT ![st.arg] = st.val] ELSE g

\* Object.assign(__locals__, captured) and syncLocals: the globals the
\* program left behind overwrite the persisted locals of the same name.
syncLocalsReplacing(sb, g) == [sb EXCEPT !.locals = g]

syncLocals(sb, g) ==
    [sb EXCEPT !.locals = [n \in VarNames |-> IF g[n] # Absent THEN g[n] ELSE sb.locals[n]]]

\* Sandbox.reset.
reset(sb) ==
    [context |-> sb.context, stdout |-> <<>>, stderr |-> <<>>, llmCalls |-> <<>>,
     finalAnswer |-> Null, locals |-> NoLocals]

getLLMCalls(sb) == sb.llmCalls

getLocal(sb, name) == sb.locals[name]

getLocals(sb) == sb.locals

getFinalAnswer(sb) == sb.finalAnswer

addUsage(a, b) ==
    [promptTokens |-> a.promptTokens + b.promptTokens,
     completionTokens |-> a.completionTokens + b.completionTokens,
     totalTokens |-> a.totalTokens + b.totalTokens]

\* getTotalUsage: llmCalls.reduce over the usages.
RECURSIVE SumCalls(_)
SumCalls(calls) ==
    IF calls = <<>> THEN ZeroUsage ELSE addUsage(SumCalls(Tail(calls)), Head(calls).usage)

getTotalUsage(sb) == SumCalls(sb.llmCalls)

\* ------------------------------------------------------------- Driver
VARIABLES
    maxIterations,   \* this.config.maxIterations
    pc,              \* where the caller is (see the actions)
    i,               \* the loop index
    iterations,      \* let iterations
    totalUsage,      \* let totalUsage
    response,        \* content of the root response being processed
    blocksLeft,      \* code blocks of that response not yet executed
    sandbox,         \* the Sandbox
    globals,         \* globals of the vm context of the running program
    steps,           \* statements the running program has run
    result,          \* the RLMResult returned, NoResult until then
    rootLog,         \* history: bag of the Driver's own complete() calls, [usage, turn]
    subLog,          \* history: bag of the llmCalls records of every ExecutionReport
    loopSet,         \* history: an execution of the loop left the final answer set
    finalTurnSets,   \* history: values the final-answer bindings were given in the final turn
    finalRaw,        \* history: content of the final-request response
    firstAnswer,     \* history: first value a final-answer binding of the Sandbox was given
    execs,           \* history: execute() calls made, where their number is capped
    fault,           \* the fault of the running program, Null while it has none
    report,          \* the SandboxResult the last execute() returned to a direct caller
    faulted,         \* history: the fault of the program that report is of, Null if none
    heldAnswer,      \* history: getFinalAnswer() when the last execute that set it returned
    priorAnswer,     \* history: getFinalAnswer() when the current execute was called
    shapes,          \* history: kinds of final-answer calls of the current program
    messageHistory,  \* let messageHistory
    currentMessages, \* the messages of the last root call
    codeBlocks,      \* const codeBlocks of the iteration
    events,          \* the events handed to options.onEvent, in order
    faultedBlocks,   \* history: [iteration, code, error] of the executions that faulted
    trace,           \* const trace, the array that becomes result.trace
    batch,           \* the llm_query or llm_query_batched call of the running program
    late,            \* work that programs left behind, and whose output is whose
    call,            \* the arguments of the API call being followed
    runs             \* the completion() calls running on one RLLM instance

driverVars ==
    <<maxIterations, i, iterations, totalUsage, response, blocksLeft, result,
      rootLog, subLog, loopSet, finalTurnSets, finalRaw>>

aloneVars == <<report, faulted, heldAnswer, priorAnswer, shapes>>

turnVars == <<messageHistory, currentMessages, codeBlocks, events, faultedBlocks, trace>>

apiVars == <<call, runs>>

vars == <<driverVars, pc, sandbox, globals, steps, firstAnswer, execs, fault, aloneVars, turnVars, batch, late, apiVars>>

NoResult == [pending |-> TRUE]

\* No API call is being followed; no completion() is running.
NoCall == [none |-> TRUE]
NoRuns == <<>>

\* No work left behind, nothing printed, nothing reported.
NoLate ==
    [timers |-> {}, calls |-> {}, code |-> "", elapsed |-> FALSE,
     outOwners |-> <<>>, callOwners |-> <<>>,
     reported |-> [exec |-> 0, out |-> <<>>, calls |-> <<>>],
     fresh |-> "no"]

\* A program that has called neither binding.
NoBatch ==
    [kind |-> "none", prompts |-> <<>>, outcomes |-> <<>>, order |-> <<>>,
     promises |-> <<>>, returned |-> [state |-> "none", values |-> <<>>]]

NoReport == [none |-> TRUE]

\* What execute() returns: the normal return after the script ran, or the
\* return of the outer catch when the script could not be compiled.
Report(sb, f) ==
    IF f \in {SyntaxFault, TimeoutFault}
    THEN [stdout |-> sb.stdout, stderr |-> sb.stderr \o <<f>>, locals |-> sb.locals,
          llmCalls |-> sb.llmCalls, error |-> f]
    ELSE [stdout |-> sb.stdout, stderr |-> sb.stderr, locals |-> sb.locals,
          llmCalls |-> sb.llmCalls, error |-> Absent]

\* The kind of a final-answer call: "invalid" when the argument is an
\* object that is not a string message.
Shape(st) == IF st.op = "FINAL" /\ st.arg \in InvalidShapes THEN "invalid" ELSE "valid"

\* A root response: llmResult.message.content, llmResult.usage, and the
\* number of blocks findCodeBlocks(content) returns.
RootResponses == [content : Contents, usage : Usages, blocks : 0..MaxBlocks]

\* if (finalAnswer): JS truthiness of a `string | null`.
Truthy(v) == v # Null /\ v # ""

\* for (let i = 0; i < this.config.maxIterations!; i++)
LoopConditionInclusive(idx, max) == idx <= max

LoopCondition(idx, max) == idx < max

\* answer: finalAnswer -- the value getFinalAnswer() returned, a string.
StringAnswer(s) == [type |-> "string", value |-> s]

\* answer: { message: finalResult.message.content, data: undefined }
ObjectAnswerNoMessage(message) ==
    [type |-> "object", message |-> Undefined, data |-> Undefined]

ObjectAnswer(message) == [type |-> "object", message |-> message, data |-> Undefined]

\* The return inside the loop.
LoopResultRootsByIndex(iters, usage, sb) ==
    [answer |-> StringAnswer(getFinalAnswer(sb)),
     usage |-> [totalCalls |-> iters + Len(getLLMCalls(sb)),
                rootCalls |-> iters - 1,
                subCalls |-> Len(getLLMCalls(sb)),
                tokenUsage |-> addUsage(usage, getTotalUsage(sb))],
     iterations |-> iters]

LoopResult(iters, usage, sb) ==
    [answer |-> StringAnswer(getFinalAnswer(sb)),
     usage |-> [totalCalls |-> iters + Len(getLLMCalls(sb)),
                rootCalls |-> iters,
                subCalls |-> Len(getLLMCalls(sb)),
                tokenUsage |-> addUsage(usage, getTotalUsage(sb))],
     iterations |-> iters]

\* The return after the final request when a final answer is there.
FinalResultTotalOfLoop(iters, usage, sb) ==
    [answer |-> StringAnswer(getFinalAnswer(sb)),
     usage |-> [totalCalls |-> iters + Len(getLLMCalls(sb)),
                rootCalls |-> iters + 1,
                subCalls |-> Len(getLLMCalls(sb)),
                tokenUsage |-> addUsage(usage, getTotalUsage(sb))],
     iterations |-> iters + 1]

FinalResult(iters, usage, sb) ==
    [answer |-> StringAnswer(getFinalAnswer(sb)),
     usage |-> [totalCalls |-> iters + 1 + Len(getLLMCalls(sb)),
                rootCalls |-> iters + 1,
                subCalls |-> Len(getLLMCalls(sb)),
                tokenUsage |-> addUsage(usage, getTotalUsage(sb))],
     iterations |-> iters + 1]

\* The raw-text fallback.
FallbackResultLoopIterations(iters, usage, sb, content) ==
    [answer |-> ObjectAnswer(content),
     usage |-> [totalCalls |-> iters + 1 + Len(getLLMCalls(sb)),
                rootCalls |-> iters + 1,
                subCalls |-> Len(getLLMCalls(sb)),
                tokenUsage |-> addUsage(usage, getTotalUsage(sb))],
     iterations |-> iters]

FallbackResult(iters, usage, sb, content) ==
    [answer |-> ObjectAnswer(content),
     usage |-> [totalCalls |-> iters + 1 + Len(getLLMCalls(sb)),
                rootCalls |-> iters + 1,
                subCalls |-> Len(getLLMCalls(sb)),
                tokenUsage |-> addUsage(usage, getTotalUsage(sb))],
     iterations |-> iters + 1]

\* The records of a report's llmCalls, as a bag.
RECURSIVE CallsBag(_)
CallsBag(calls) ==
    IF calls = <<>> THEN EmptyBag ELSE CallsBag(Tail(calls)) (+) SetToBag({Head(calls)})

\* State at the start of completion(): new Sandbox, iterations = 0,
\* totalUsage zero.
Init ==
    /\ maxIterations \in 0..MaxIter
    /\ pc = "loop"
    /\ i = 0
    /\ iterations = 0
    /\ totalUsage = ZeroUsage
    /\ response = ""
    /\ blocksLeft = 0
    /\ sandbox = loadContext(NewSandbox, ContextPayload)
    /\ globals = NoLocals
    /\ steps = 0
    /\ result = NoResult
    /\ rootLog = EmptyBag
    /\ subLog = EmptyBag
    /\ loopSet = FALSE
    /\ finalTurnSets = {}
    /\ finalRaw = Null
    /\ firstAnswer = Null
    /\ execs = 0
    /\ fault = Null
    /\ report = NoReport
    /\ faulted = Null
    /\ heldAnswer = Null
    /\ priorAnswer = Null
    /\ shapes = {}
    /\ messageHistory = <<>>
    /\ currentMessages = <<>>
    /\ codeBlocks = <<>>
    /\ events = <<>>
    /\ faultedBlocks = <<>>
    /\ trace = <<>>
    /\ batch = NoBatch
    /\ late = NoLate
    /\ call = NoCall
    /\ runs = NoRuns

\* Loop head up to the root response: iterations = i + 1, the root call,
\* its usage added, its code blocks found.
RootQuery ==
    /\ pc = "loop"
    /\ LoopCondition(i, maxIterations)
    /\ \E r \in RootResponses :
        /\ iterations' = i + 1
        /\ totalUsage' = addUsage(totalUsage, r.usage)
        /\ response' = r.content
        /\ blocksLeft' = r.blocks
        /\ rootLog' = rootLog (+) SetToBag({[usage |-> r.usage, turn |-> "loop"]})
    /\ pc' = "exec"
    /\ UNCHANGED <<maxIterations, i, result, subLog, loopSet, finalTurnSets, finalRaw,
                   sandbox, globals, steps, firstAnswer, execs, fault, aloneVars, turnVars, batch, late, apiVars>>

\* The Driver calls sandbox.execute(code) for the next block of the loop:
\* createContext runs and the program starts.
ExecuteBlock ==
    /\ pc = "exec"
    /\ blocksLeft > 0
    /\ sandbox' = createContext(sandbox)
    /\ globals' = NoLocals
    /\ steps' = 0
    /\ fault' = Null
    /\ pc' = "run"
    /\ UNCHANGED <<driverVars, firstAnswer, execs, aloneVars, turnVars, batch, late, apiVars>>

\* The running program runs one statement of S; a program that has
\* thrown runs no more.
Run(S) ==
    /\ pc \in {"run", "finalRun", "sandboxRun"}
    /\ steps < MaxOps
    /\ fault = Null
    /\ \E st \in S :
        /\ sandbox' = RunStmt(sandbox, st)
        /\ globals' = RunStmtGlobals(globals, st)
        /\ finalTurnSets' = IF pc = "finalRun" /\ SetBy(sandbox, st) # Null
                            THEN finalTurnSets \cup {SetBy(sandbox, st)}
                            ELSE finalTurnSets
        /\ firstAnswer' = IF pc = "sandboxRun" /\ firstAnswer = Null
                          THEN SetBy(sandbox, st)
                          ELSE firstAnswer
        /\ fault' = IF st.op = "throw" THEN st.arg ELSE Null
        /\ shapes' = IF pc = "sandboxRun" /\ st.op \in {"FINAL", "FINAL_VAR"}
                     THEN shapes \cup {Shape(st)}
                     ELSE shapes
    /\ steps' = steps + 1
    /\ UNCHANGED <<maxIterations, i, iterations, totalUsage, response, blocksLeft, result,
                   rootLog, subLog, loopSet, finalRaw, pc, execs,
                   report, faulted, heldAnswer, priorAnswer, turnVars, batch, late, apiVars>>

\* A program the root LLM wrote runs one statement.  The programs of a
\* completion are taken to compile and to call the bindings as documented;
\* programs that go wrong are run on a Sandbox used on its own.
Statement == pc # "sandboxRun" /\ Run(Stmts)

\* sandbox.execute returns in the loop: locals synced, the report built,
\* and the Driver returns at once when getFinalAnswer() is truthy.
BlockExecuted ==
    /\ pc = "run"
    /\ sandbox' = IF fault = SyntaxFault THEN sandbox ELSE syncLocals(sandbox, globals)
    /\ fault' = Null
    /\ globals' = NoLocals
    /\ steps' = 0
    /\ subLog' = subLog (+) CallsBag(sandbox.llmCalls)
    /\ loopSet' = (loopSet \/ getFinalAnswer(sandbox) # Null)
    /\ IF Truthy(getFinalAnswer(sandbox'))
       THEN /\ result' = LoopResult(iterations, totalUsage, sandbox')
            /\ pc' = "done"
            /\ UNCHANGED blocksLeft
       ELSE /\ blocksLeft' = blocksLeft - 1
            /\ pc' = "exec"
            /\ UNCHANGED result
    /\ UNCHANGED <<maxIterations, i, iterations, totalUsage, response, rootLog,
                   finalTurnSets, finalRaw, firstAnswer, execs, aloneVars, turnVars, batch, late, apiVars>>

\* End of a loop iteration: the history is extended and i incremented.
EndIteration ==
    /\ pc = "exec"
    /\ blocksLeft = 0
    /\ i' = i + 1
    /\ pc' = "loop"
    /\ UNCHANGED <<maxIterations, iterations, totalUsage, response, blocksLeft, result,
                   rootLog, subLog, loopSet, finalTurnSets, finalRaw,
                   sandbox, globals, steps, firstAnswer, execs, fault, aloneVars, turnVars, batch, late, apiVars>>

\* The loop ran out: the final request, its usage, its code blocks.
FinalQuery ==
    /\ pc = "loop"
    /\ ~LoopCondition(i, maxIterations)
    /\ \E r \in RootResponses :
        /\ totalUsage' = addUsage(totalUsage, r.usage)
        /\ response' = r.content
        /\ finalRaw' = r.content
        /\ blocksLeft' = r.blocks
        /\ rootLog' = rootLog (+) SetToBag({[usage |-> r.usage, turn |-> "final"]})
    /\ pc' = "finalExec"
    /\ UNCHANGED <<maxIterations, i, iterations, result, subLog, loopSet, finalTurnSets,
                   sandbox, globals, steps, firstAnswer, execs, fault, aloneVars, turnVars, batch, late, apiVars>>

\* for (const code of finalCodeBlocks) await sandbox.execute(code): the call.
FinalExecute ==
    /\ pc = "finalExec"
    /\ blocksLeft > 0
    /\ sandbox' = createContext(sandbox)
    /\ globals' = NoLocals
    /\ steps' = 0
    /\ fault' = Null
    /\ pc' = "finalRun"
    /\ UNCHANGED <<driverVars, firstAnswer, execs, aloneVars, turnVars, batch, late, apiVars>>

\* sandbox.execute returns in the final turn; the report is dropped.
FinalBlockExecuted ==
    /\ pc = "finalRun"
    /\ sandbox' = IF fault = SyntaxFault THEN sandbox ELSE syncLocals(sandbox, globals)
    /\ fault' = Null
    /\ globals' = NoLocals
    /\ steps' = 0
    /\ subLog' = subLog (+) CallsBag(sandbox.llmCalls)
    /\ blocksLeft' = blocksLeft - 1
    /\ pc' = "finalExec"
    /\ UNCHANGED <<maxIterations, i, iterations, totalUsage, response, result, rootLog,
                   loopSet, finalTurnSets, finalRaw, firstAnswer, execs, aloneVars, turnVars, batch, late, apiVars>>

\* After the final blocks: the final answer if there is one, else the raw
\* response.
FinalReturn ==
    /\ pc = "finalExec"
    /\ blocksLeft = 0
    /\ result' = IF Truthy(getFinalAnswer(sandbox))
                 THEN FinalResult(iterations, totalUsage, sandbox)
                 ELSE FallbackResult(iterations, totalUsage, sandbox, response)
    /\ pc' = "done"
    /\ UNCHANGED <<maxIterations, i, iterations, totalUsage, response, blocksLeft,
                   rootLog, subLog, loopSet, finalTurnSets, finalRaw,
                   sandbox, globals, steps, firstAnswer, execs, fault, aloneVars, turnVars, batch, late, apiVars>>

Next ==
    \/ RootQuery
    \/ ExecuteBlock
    \/ Statement
    \/ BlockExecuted
    \/ EndIteration
    \/ FinalQuery
    \/ FinalExecute
    \/ FinalBlockExecuted
    \/ FinalReturn

Spec == Init /\ [][Next]_vars

\* The Driver awaits each call and each execution and then goes on: when
\* every await returns, a step that can be taken is taken.
FairSpec == Spec /\ WF_vars(Next)

\* ------------------------------------------------- a Sandbox on its own
\* A Sandbox driven through its public methods, as sandbox.test.ts does.
SandboxInit ==
    /\ maxIterations = 0
    /\ pc = "sandbox"
    /\ i = 0
    /\ iterations = 0
    /\ totalUsage = ZeroUsage
    /\ response = ""
    /\ blocksLeft = 0
    /\ sandbox = NewSandbox
    /\ globals = NoLocals
    /\ steps = 0
    /\ result = NoResult
    /\ rootLog = EmptyBag
    /\ subLog = EmptyBag
    /\ loopSet = FALSE
    /\ finalTurnSets = {}
    /\ finalRaw = Null
    /\ firstAnswer = Null
    /\ execs = 0
    /\ fault = Null
    /\ report = NoReport
    /\ faulted = Null
    /\ heldAnswer = Null
    /\ priorAnswer = Null
    /\ shapes = {}
    /\ messageHistory = <<>>
    /\ currentMessages = <<>>
    /\ codeBlocks = <<>>
    /\ events = <<>>
    /\ faultedBlocks = <<>>
    /\ trace = <<>>
    /\ batch = NoBatch
    /\ late = NoLate
    /\ call = NoCall
    /\ runs = NoRuns

\* A caller calls execute(code).
SandboxExecute ==
    /\ pc = "sandbox"
    /\ execs < MaxExecs
    /\ sandbox' = createContext(sandbox)
    /\ globals' = NoLocals
    /\ steps' = 0
    /\ \E parses \in BOOLEAN : fault' = IF parses THEN Null ELSE SyntaxFault
    /\ priorAnswer' = getFinalAnswer(sandbox)
    /\ shapes' = {}
    /\ execs' = execs + 1
    /\ pc' = "sandboxRun"
    /\ UNCHANGED <<driverVars, firstAnswer, report, faulted, heldAnswer, turnVars, batch, late, apiVars>>

\* A program run by a direct caller runs one statement.
SandboxStatement == pc = "sandboxRun" /\ Run(AllStmts)

\* execute() returns to the caller.
SandboxExecuted ==
    /\ pc = "sandboxRun"
    /\ sandbox' = IF fault = SyntaxFault THEN sandbox ELSE syncLocals(sandbox, globals)
    /\ report' = Report(sandbox', fault)
    /\ faulted' = fault
    /\ heldAnswer' = IF "valid" \in shapes THEN getFinalAnswer(sandbox)
                     ELSE IF shapes = {} THEN heldAnswer ELSE Null
    /\ fault' = Null
    /\ globals' = NoLocals
    /\ steps' = 0
    /\ pc' = "sandbox"
    /\ UNCHANGED <<driverVars, firstAnswer, execs, priorAnswer, shapes, turnVars, batch, late, apiVars>>

\* A caller calls reset().
SandboxReset ==
    /\ pc = "sandbox"
    /\ sandbox' = reset(sandbox)
    /\ firstAnswer' = Null
    /\ heldAnswer' = Null
    /\ priorAnswer' = Null
    /\ shapes' = {}
    /\ UNCHANGED <<driverVars, pc, globals, steps, execs, fault, report, faulted, turnVars, batch, late, apiVars>>

SandboxNext ==
    \/ SandboxExecute
    \/ SandboxStatement
    \/ SandboxExecuted
    \/ SandboxReset

SandboxSpec == SandboxInit /\ [][SandboxNext]_vars

\* ------------------------------------- llm_query and llm_query_batched
\* Prompts a program passes to the sub-LLM bindings.
Prompts == {"p", "q"}

PromptSeqs == UNION {[1..n -> Prompts] : n \in 0..MaxBatch}

\* States of a promise.
Pending == [state |-> "pending", value |-> ""]
Fulfilled(v) == [state |-> "fulfilled", value |-> v]
Rejected(e) == [state |-> "rejected", value |-> e]

\* The string llmQuery's catch branch returns.
LLMQueryFailed(e) == "Error: LLM query failed - " \o e

\* How the promise of one llmQuery call settles: with the content, or from
\* the catch branch with the error string.
llmQueryReturnRejecting(st) ==
    IF st.arg = "ok" THEN Fulfilled(ResponseTo(st.val)) ELSE Rejected(ClientError)

llmQueryReturn(st) ==
    IF st.arg = "ok" THEN Fulfilled(ResponseTo(st.val)) ELSE Fulfilled(LLMQueryFailed(ClientError))

\* The promise prompts.map made for call k settles.
SettleNextFree(promises, k, p) ==
    LET free == CHOOSE j \in 1..Len(promises) :
                    /\ promises[j].state = "pending"
                    /\ \A l \in 1..(j - 1) : promises[l].state # "pending"
    IN [promises EXCEPT ![free] = p]

Settle(promises, k, p) == [promises EXCEPT ![k] = p]

\* What the awaited call gives the program: for llm_query the promise of
\* the one call, for llm_query_batched Promise.all over the promises, which
\* is fulfilled with the values by index once all are, and rejected as soon
\* as one is. The value of llm_query is held as a sequence of one.
Awaited(promises) ==
    IF \E k \in 1..Len(promises) : promises[k].state = "rejected"
    THEN [state |-> "rejected", values |-> <<>>]
    ELSE IF \A k \in 1..Len(promises) : promises[k].state = "fulfilled"
         THEN [state |-> "fulfilled", values |-> [k \in 1..Len(promises) |-> promises[k].value]]
         ELSE [state |-> "pending", values |-> <<>>]

\* The calls in flight after the binding was called: every llmQuery has
\* run to its await of client.complete.
Started(kind, ps) ==
    [kind |-> kind, prompts |-> ps, outcomes |-> [k \in 1..Len(ps) |-> "inflight"],
     order |-> <<>>, promises |-> [k \in 1..Len(ps) |-> Pending],
     returned |-> [state |-> "pending", values |-> <<>>]]

BatchInit ==
    /\ maxIterations = 0
    /\ pc = "batch"
    /\ i = 0
    /\ iterations = 0
    /\ totalUsage = ZeroUsage
    /\ response = ""
    /\ blocksLeft = 0
    /\ sandbox = NewSandbox
    /\ globals = NoLocals
    /\ steps = 0
    /\ result = NoResult
    /\ rootLog = EmptyBag
    /\ subLog = EmptyBag
    /\ loopSet = FALSE
    /\ finalTurnSets = {}
    /\ finalRaw = Null
    /\ firstAnswer = Null
    /\ execs = 0
    /\ fault = Null
    /\ report = NoReport
    /\ faulted = Null
    /\ heldAnswer = Null
    /\ priorAnswer = Null
    /\ shapes = {}
    /\ messageHistory = <<>>
    /\ currentMessages = <<>>
    /\ codeBlocks = <<>>
    /\ events = <<>>
    /\ faultedBlocks = <<>>
    /\ trace = <<>>
    /\ batch = NoBatch
    /\ late = NoLate
    /\ call = NoCall
    /\ runs = NoRuns

batchFrame ==
    <<driverVars, globals, steps, firstAnswer, fault, faulted, heldAnswer, priorAnswer,
      shapes, turnVars, late, apiVars>>

\* A caller calls execute(code).
BatchExecute ==
    /\ pc = "batch"
    /\ execs < MaxExecs
    /\ sandbox' = createContext(sandbox)
    /\ batch' = NoBatch
    /\ execs' = execs + 1
    /\ pc' = "batchRun"
    /\ UNCHANGED <<batchFrame, report>>

\* The program calls llm_query(prompt) and awaits it.
LLMQueryCall ==
    /\ pc = "batchRun"
    /\ \E prompt \in Prompts : batch' = Started("llm_query", <<prompt>>)
    /\ pc' = "batchWait"
    /\ UNCHANGED <<batchFrame, sandbox, execs, report>>

\* The program calls llm_query_batched(prompts) and awaits it.
LLMQueryBatchedCall ==
    /\ pc = "batchRun"
    /\ \E ps \in PromptSeqs : batch' = Started("llm_query_batched", ps)
    /\ pc' = "batchWait"
    /\ UNCHANGED <<batchFrame, sandbox, execs, report>>

\* client.complete of one call in flight resolves or rejects, and the rest
\* of that llmQuery runs.
ClientCompletes ==
    /\ pc = "batchWait"
    /\ \E k \in 1..Len(batch.prompts) :
        /\ batch.outcomes[k] = "inflight"
        /\ \E st \in {Stmt("llm_query", "ok", batch.prompts[k], u) : u \in SubUsages}
                     \cup {Stmt("llm_query", "fail", batch.prompts[k], ZeroUsage)} :
            /\ sandbox' = llmQuery(sandbox, st)
            /\ batch' = [batch EXCEPT !.outcomes[k] = st.arg,
                                      !.order = Append(@, k),
                                      !.promises = Settle(@, k, llmQueryReturn(st))]
    /\ UNCHANGED <<batchFrame, pc, execs, report>>

\* The await of the program is over.
AwaitSettles ==
    /\ pc = "batchWait"
    /\ Awaited(batch.promises).state # "pending"
    /\ batch' = [batch EXCEPT !.returned = Awaited(batch.promises)]
    /\ pc' = "batchDone"
    /\ UNCHANGED <<batchFrame, sandbox, execs, report>>

\* The program ends and execute() returns its report; a rejection the
\* program did not handle is caught by the wrapper.
BatchExecuted ==
    /\ pc = "batchDone"
    /\ sandbox' = IF batch.returned.state = "rejected" THEN Caught(sandbox, ClientError) ELSE sandbox
    /\ report' = Report(sandbox', Null)
    /\ pc' = "batch"
    /\ UNCHANGED <<batchFrame, execs, batch>>

BatchNext ==
    \/ BatchExecute
    \/ LLMQueryCall
    \/ LLMQueryBatchedCall
    \/ ClientCompletes
    \/ AwaitSettles
    \/ BatchExecuted

BatchSpec == BatchInit /\ [][BatchNext]_vars

\* ------------------------------------------- messages, events, reports
\* The Driver followed call by call: each sandbox.execute is one step that
\* runs a whole program, and the message list and the events are kept.
\* A text is the sequence of its lines.

\* Code blocks the root LLM writes: one that assigns a variable, one that
\* throws, one that prints a long line and throws, one that gives the final
\* answer, one that does not compile.
OkCode == "x = 'a'"
ThrowCode == "null.f()"
BigThrowCode == "print(big); null.f()"
FinalCode == "FINAL('a')"
BadCode == "x = ("

\* Blocks that answer with FINAL_VAR: of a variable, of a variable the same
\* block assigns, of a name no program assigns.
FinalVarCode == "FINAL_VAR('x')"
AssignFinalVarCode == "x = 'b'; FINAL_VAR('x')"
UnassignedVarCode == "FINAL_VAR('toString')"

\* A block that prints the context, and one that asks a sub-LLM.
ContextCode == "print(context)"
QueryCode == "await llm_query('p')"

TurnCodes ==
    {OkCode, ThrowCode, BigThrowCode, FinalCode, BadCode,
     FinalVarCode, AssignFinalVarCode, UnassignedVarCode, ContextCode}

\* new vm.Script(code): the statements of a block, or a SyntaxError.
Parse(code) ==
    CASE code = OkCode -> [ok |-> TRUE, stmts |-> <<Stmt("assign", "x", "a", ZeroUsage)>>]
      [] code = ThrowCode -> [ok |-> TRUE, stmts |-> <<Stmt("throw", RuntimeFault, Absent, ZeroUsage)>>]
      [] code = BigThrowCode ->
            [ok |-> TRUE, stmts |-> <<Stmt("print", BigLine, Absent, ZeroUsage),
                                      Stmt("throw", RuntimeFault, Absent, ZeroUsage)>>]
      [] code = FinalCode -> [ok |-> TRUE, stmts |-> <<Stmt("FINAL", "a", Absent, ZeroUsage)>>]
      [] code = FinalVarCode ->
            [ok |-> TRUE, stmts |-> <<Stmt("FINAL_VAR", "x", Absent, ZeroUsage)>>]
      [] code = AssignFinalVarCode ->
            [ok |-> TRUE, stmts |-> <<Stmt("assign", "x", "b", ZeroUsage),
                                      Stmt("FINAL_VAR", "x", Absent, ZeroUsage)>>]
      [] code = ContextCode ->
            [ok |-> TRUE, stmts |-> <<Stmt("print_context", Absent, Absent, ZeroUsage)>>]
      [] code = QueryCode ->
            [ok |-> TRUE,
             stmts |-> <<Stmt("llm_query", "ok", "p", CHOOSE u \in SubUsages : TRUE)>>]
      [] code = UnassignedVarCode ->
            [ok |-> TRUE, stmts |-> <<Stmt("FINAL_VAR", "toString", Absent, ZeroUsage)>>]
      [] OTHER -> [ok |-> FALSE, stmts |-> <<>>]

\* A program run to its end or to its first exception.
RECURSIVE RunProgram(_, _, _)
RunProgram(sb, g, stmts) ==
    IF stmts = <<>> THEN [sandbox |-> sb, globals |-> g, fault |-> Null]
    ELSE IF Head(stmts).op = "throw"
         THEN [sandbox |-> RunStmt(sb, Head(stmts)), globals |-> g, fault |-> Head(stmts).arg]
         ELSE RunProgram(RunStmt(sb, Head(stmts)), RunStmtGlobals(g, Head(stmts)), Tail(stmts))

\* Sandbox.execute(code) as one step: the Sandbox it leaves, its report and
\* the fault of the program.
execute(sb, code) ==
    LET ctx == createContext(sb)
        parsed == Parse(code)
        ran == RunProgram(ctx, NoLocals, parsed.stmts)
        synced == syncLocals(ran.sandbox, ran.globals)
    IN  IF parsed.ok
        THEN [sandbox |-> synced, result |-> Report(synced, Null), fault |-> ran.fault]
        ELSE [sandbox |-> ctx, result |-> Report(ctx, SyntaxFault), fault |-> SyntaxFault]

Message(role, content) == [role |-> role, content |-> content]

\* numbers.join(", ")
RECURSIVE JoinNumbers(_)
JoinNumbers(numbers) ==
    IF numbers = <<>> THEN ""
    ELSE IF Len(numbers) = 1 THEN ToString(Head(numbers))
    ELSE ToString(Head(numbers)) \o ", " \o JoinNumbers(Tail(numbers))

\* The contexts a caller passes and the prompt of the call.
Contexts == {"alpha", "omicron"}
RootPrompts == {"prompt"}

\* this.systemPrompt
SystemPrompt == "system prompt"

\* buildSystemPrompt: the system prompt, then the context metadata; the
\* lengths are those of a context of at most 100 chunks.
buildSystemPrompt(systemPrompt, contextLengths, contextTotalLength, contextType, schemaDescription) ==
    LET lengthsDisplay == "[" \o JoinNumbers(contextLengths) \o "]"
        metadataPrompt ==
            "Your context is a " \o contextType \o " with " \o ToString(contextTotalLength)
            \o " total characters, and is broken up into chunks of char lengths: "
            \o lengthsDisplay \o "."
        typed == IF schemaDescription # Null
                 THEN metadataPrompt \o "\n\nThe context variable has the following TypeScript type:\n"
                      \o "type Context = " \o schemaDescription
                 ELSE metadataPrompt
    IN  <<Message("system", <<systemPrompt>>), Message("assistant", <<typed>>)>>

\* completion(): the initial message history is built from the length and
\* the type of the context, not from its content.
InitialMessagesWithContext(context) ==
    buildSystemPrompt(SystemPrompt, <<Len(context)>>, Len(context), "string", context)

InitialMessages(context) ==
    buildSystemPrompt(SystemPrompt, <<Len(context)>>, Len(context), "string", Null)

\* The index of the first occurrence of a string in a text, 0 if none.
IndexOf(text, search) ==
    LET found == {k \in 1..(Len(text) - Len(search) + 1) :
                      SubSeq(text, k, k + Len(search) - 1) = search}
    IN  IF found = {} THEN 0 ELSE CHOOSE k \in found : \A j \in found : k <= j

\* The replacement string of String.prototype.replace with its patterns
\* expanded: $$ is a dollar sign, $& the matched text, $' the text after the
\* match; a dollar sign before anything else stands for itself.  (The
\* pattern for the text before the match is written with a backquote, which
\* no prompt of the model holds.)
RECURSIVE ExpandReplacement(_, _, _)
ExpandReplacement(replacement, matched, after) ==
    IF replacement = "" THEN ""
    ELSE LET rest1 == SubSeq(replacement, 2, Len(replacement))
             rest2 == SubSeq(replacement, 3, Len(replacement))
             next == IF Len(replacement) >= 2 THEN SubSeq(replacement, 2, 2) ELSE ""
         IN  IF SubSeq(replacement, 1, 1) = "$" /\ next = "$"
             THEN "$" \o ExpandReplacement(rest2, matched, after)
             ELSE IF SubSeq(replacement, 1, 1) = "$" /\ next = "&"
             THEN matched \o ExpandReplacement(rest2, matched, after)
             ELSE IF SubSeq(replacement, 1, 1) = "$" /\ next = "'"
             THEN after \o ExpandReplacement(rest2, matched, after)
             ELSE SubSeq(replacement, 1, 1) \o ExpandReplacement(rest1, matched, after)

\* text.replace(search, replacement) with a string to search for: the first
\* occurrence is replaced.
Replace(text, search, replacement) ==
    LET k == IndexOf(text, search)
        after == SubSeq(text, k + Len(search), Len(text))
    IN  IF k = 0 THEN text
        ELSE SubSeq(text, 1, k - 1) \o ExpandReplacement(replacement, search, after) \o after

\* USER_PROMPT_WITH_ROOT (its backquotes left out) and the two openings of
\* buildUserPrompt.
PromptOpening == "Think step-by-step on what to do using the REPL environment (which contains the context) to answer the original prompt: \""
PromptClosing == "\".\n\nContinue using the REPL environment, which has the context variable, and querying sub-LLMs by writing to repl tags, and determine your answer. Your next action:"
USER_PROMPT_WITH_ROOT == PromptOpening \o "{rootPrompt}" \o PromptClosing
Safeguard == "You have not interacted with the REPL environment or seen your prompt / context yet. Your next action should be to look through and figure out how to answer the prompt, so don't just provide a final answer yet.\n\n"
HistoryNote == "The history before is your previous interactions with the REPL environment. "

\* buildUserPrompt(prompt, iteration).
buildUserPrompt(prompt, iteration) ==
    Message("user", <<(IF iteration = 0 THEN Safeguard ELSE HistoryNote)
                      \o Replace(USER_PROMPT_WITH_ROOT, "{rootPrompt}", prompt)>>)

finalPrompt == Message("user", <<"You've reached the maximum iterations.">>)

\* The names of locals joined by ", ".
RECURSIVE JoinNames(_)
JoinNames(names) ==
    IF names = {} THEN ""
    ELSE LET n == CHOOSE x \in names : TRUE
         IN  IF names = {n} THEN n ELSE n \o ", " \o JoinNames(names \ {n})

\* parts.join("\n\n")
RECURSIVE JoinParts(_)
JoinParts(parts) ==
    IF parts = <<>> THEN <<>>
    ELSE IF Len(parts) = 1 THEN Head(parts)
    ELSE Head(parts) \o <<"">> \o JoinParts(Tail(parts))

\* The number of characters of a line and of a text.
Chars(line) == IF line = BigLine THEN maxCharLength + 1 ELSE Len(line)

RECURSIVE TextLength(_)
TextLength(lines) ==
    IF lines = <<>> THEN 0
    ELSE IF Len(lines) = 1 THEN Chars(Head(lines))
    ELSE Chars(Head(lines)) + 1 + TextLength(Tail(lines))

\* line.slice(0, n)
CutLine(line, n) == IF line = BigLine THEN BigLineCut ELSE SubSeq(line, 1, n)

\* text.slice(0, n) of a text longer than n characters.
RECURSIVE Slice(_, _)
Slice(lines, n) ==
    IF Chars(Head(lines)) >= n \/ Len(lines) = 1 THEN <<CutLine(Head(lines), n)>>
    ELSE <<Head(lines)>> \o Slice(Tail(lines), n - Chars(Head(lines)) - 1)

\* formatIteration's cut of a result longer than maxCharLength.
Truncate(lines) ==
    IF TextLength(lines) > maxCharLength
    THEN LET cut == Slice(lines, maxCharLength)
         IN  [cut EXCEPT ![Len(cut)] =
                @ \o "... + [" \o ToString(TextLength(lines) - maxCharLength) \o " chars truncated]"]
    ELSE lines

\* formatExecutionResult: stdout, stderr, then the names of the locals.
formatExecutionResultNoStderr(res) ==
    LET names == {n \in VarNames : res.locals[n] # Absent}
        parts == (IF res.stdout # <<>> THEN <<res.stdout>> ELSE <<>>)
                 \o IF names # {} THEN <<<<"REPL variables: [" \o JoinNames(names) \o "]">>>> ELSE <<>>
    IN  IF parts # <<>> THEN JoinParts(parts) ELSE <<"No output">>

formatExecutionResult(res) ==
    LET names == {n \in VarNames : res.locals[n] # Absent}
        parts == (IF res.stdout # <<>> THEN <<res.stdout>> ELSE <<>>)
                 \o (IF res.stderr # <<>> THEN <<res.stderr>> ELSE <<>>)
                 \o (IF names # {} THEN <<<<"REPL variables: [" \o JoinNames(names) \o "]">>>> ELSE <<>>)
    IN  IF parts # <<>> THEN JoinParts(parts) ELSE <<"No output">>

\* The user message of one executed block ("<fence>" is a line of three
\* backquotes).
BlockMessage(block) ==
    Message("user", <<"Code executed:", "<fence javascript>", block.code, "<fence>", "", "REPL output:">>
                    \o Truncate(formatExecutionResult(block.result)))

\* formatIteration: the assistant response, then one user message per
\* executed block.
formatIterationSkippingEmpty(resp, blocks) ==
    IF blocks = <<>> THEN <<>>
    ELSE <<Message("assistant", <<resp>>)>> \o [k \in 1..Len(blocks) |-> BlockMessage(blocks[k])]

formatIterationReportsFirst(resp, blocks) ==
    [k \in 1..Len(blocks) |-> BlockMessage(blocks[k])] \o <<Message("assistant", <<resp>>)>>

formatIteration(resp, blocks) ==
    <<Message("assistant", <<resp>>)>> \o [k \in 1..Len(blocks) |-> BlockMessage(blocks[k])]

Event(type, iteration, code, output, answer, error) ==
    [type |-> type, iteration |-> iteration, code |-> code, output |-> output,
     answer |-> answer, error |-> error]

\* The events emitted before the root call of an iteration.
BeforeRootCall(iteration) ==
    <<Event("iteration_start", iteration, Absent, <<>>, Absent, Absent),
      Event("llm_query_start", iteration, Absent, <<>>, Absent, Absent)>>

\* The events of the head of an iteration whose root call resolved.
RootQueryEventsEndFirst(iteration, content) ==
    <<Event("llm_query_end", iteration, Absent, <<content>>, Absent, Absent)>>
    \o BeforeRootCall(iteration)

RootQueryEvents(iteration, content) ==
    BeforeRootCall(iteration)
    \o <<Event("llm_query_end", iteration, Absent, <<content>>, Absent, Absent)>>

\* currentMessages.map(m => m.content).join("").length
RECURSIVE promptLength(_)
promptLength(messages) ==
    IF messages = <<>> THEN 0
    ELSE TextLength(Head(messages).content) + promptLength(Tail(messages))

\* The trace entry pushed after a root call of the loop.
LLMCallEntry(iteration, messages, content) ==
    [type |-> "llm_call",
     data |-> [iteration |-> iteration, promptLength |-> promptLength(messages),
               responseLength |-> Len(content)]]

\* The trace entries pushed before and after the execution of a block.
ToolCallEntry(code) == [type |-> "tool_call", data |-> [codeLength |-> Len(code)]]

ToolResultEntry(res) ==
    [type |-> "tool_result",
     data |-> [hasOutput |-> res.stdout # <<>>, hasError |-> res.error # Absent,
               llmCalls |-> Len(res.llmCalls)]]

\* messageHistory = [...messageHistory, ...newMessages]
ExtendHistoryDroppingHead(history, newMessages) == Tail(history) \o newMessages

ExtendHistory(history, newMessages) == history \o newMessages

\* finalAnswer.message: the property "message" of a value; a string has none.
MessageOf(v) == IF v.type = "object" THEN v.message ELSE Undefined

TurnInit ==
    /\ maxIterations \in 0..MaxIter
    /\ pc = "turnLoop"
    /\ i = 0
    /\ iterations = 0
    /\ totalUsage = ZeroUsage
    /\ response = ""
    /\ blocksLeft = 0
    /\ \E context \in Contexts :
        /\ sandbox = loadContext(NewSandbox, context)
        /\ messageHistory = InitialMessages(context)
    /\ globals = NoLocals
    /\ steps = 0
    /\ result = NoResult
    /\ rootLog = EmptyBag
    /\ subLog = EmptyBag
    /\ loopSet = FALSE
    /\ finalTurnSets = {}
    /\ finalRaw = Null
    /\ firstAnswer = Null
    /\ execs = 0
    /\ fault = Null
    /\ report = NoReport
    /\ faulted = Null
    /\ heldAnswer = Null
    /\ priorAnswer = Null
    /\ shapes = {}
    /\ currentMessages = <<>>
    /\ codeBlocks = <<>>
    /\ events = <<>>
    /\ faultedBlocks = <<>>
    /\ trace = <<>>
    /\ batch = NoBatch
    /\ late = NoLate
    /\ \E prompt \in RootPrompts : call = [prompt |-> prompt]
    /\ runs = NoRuns

turnFrame ==
    <<maxIterations, rootLog, subLog, loopSet, finalTurnSets, globals, steps,
      firstAnswer, fault, aloneVars, batch, late, apiVars>>

\* Loop head: the user turn is added to a working copy of the history, the
\* root call is made, its usage added and its code blocks found.
TurnRootQuery ==
    /\ pc = "turnLoop"
    /\ LoopCondition(i, maxIterations)
    /\ iterations' = i + 1
    /\ currentMessages' = messageHistory \o <<buildUserPrompt(call.prompt, i)>>
    /\ \E r \in RootResponses :
        /\ r.blocks <= MaxTurnExecs - execs
        /\ totalUsage' = addUsage(totalUsage, r.usage)
        /\ response' = r.content
        /\ blocksLeft' = r.blocks
        /\ events' = events \o RootQueryEvents(i + 1, r.content)
        /\ trace' = Append(trace, LLMCallEntry(i + 1, currentMessages', r.content))
    /\ codeBlocks' = <<>>
    /\ pc' = "turnExec"
    /\ UNCHANGED <<turnFrame, i, result, sandbox, finalRaw, messageHistory, faultedBlocks, execs>>

\* One code block of the loop: executed, reported to onEvent, and the
\* completion returned when getFinalAnswer() is truthy.
TurnExecute ==
    /\ pc = "turnExec"
    /\ blocksLeft > 0
    /\ \E code \in TurnCodes :
        LET ex == execute(sandbox, code)
            block == [code |-> code, result |-> ex.result]
            ran == <<Event("code_execution_start", iterations, code, <<>>, Absent, Absent),
                     Event("code_execution_end", iterations, code,
                           formatExecutionResult(ex.result), Absent, ex.result.error)>>
        IN  /\ sandbox' = ex.sandbox
            /\ codeBlocks' = Append(codeBlocks, block)
            /\ trace' = trace \o <<ToolCallEntry(code), ToolResultEntry(ex.result)>>
            /\ faultedBlocks' = IF ex.fault # Null
                                THEN Append(faultedBlocks,
                                            [iteration |-> iterations, code |-> code,
                                             error |-> ex.fault,
                                             chars |-> TextLength(formatExecutionResult(ex.result))])
                                ELSE faultedBlocks
            /\ IF Truthy(getFinalAnswer(ex.sandbox))
               THEN /\ events' = events \o ran \o
                         <<Event("final_answer", iterations, Absent, <<>>,
                                 MessageOf(StringAnswer(getFinalAnswer(ex.sandbox))), Absent)>>
                    /\ result' = LoopResult(iterations, totalUsage, ex.sandbox)
                    /\ pc' = "done"
                    /\ UNCHANGED blocksLeft
               ELSE /\ events' = events \o ran
                    /\ blocksLeft' = blocksLeft - 1
                    /\ pc' = "turnExec"
                    /\ UNCHANGED result
    /\ execs' = execs + 1
    /\ UNCHANGED <<turnFrame, i, iterations, totalUsage, response, finalRaw,
                   messageHistory, currentMessages>>

\* End of a loop iteration: formatIteration is appended to the history.
TurnEndIteration ==
    /\ pc = "turnExec"
    /\ blocksLeft = 0
    /\ messageHistory' = ExtendHistory(messageHistory, formatIteration(response, codeBlocks))
    /\ i' = i + 1
    /\ pc' = "turnLoop"
    /\ UNCHANGED <<turnFrame, iterations, totalUsage, response, blocksLeft, result, sandbox,
                   finalRaw, currentMessages, codeBlocks, events, faultedBlocks, trace, execs>>

\* The loop ran out: the final request.
TurnFinalQuery ==
    /\ pc = "turnLoop"
    /\ ~LoopCondition(i, maxIterations)
    /\ currentMessages' = messageHistory \o <<finalPrompt>>
    /\ \E r \in RootResponses :
        /\ r.blocks <= MaxTurnExecs - execs
        /\ totalUsage' = addUsage(totalUsage, r.usage)
        /\ response' = r.content
        /\ finalRaw' = r.content
        /\ blocksLeft' = r.blocks
    /\ pc' = "turnFinalExec"
    /\ UNCHANGED <<turnFrame, i, iterations, result, sandbox, messageHistory, codeBlocks,
                   events, faultedBlocks, trace, execs>>

\* One code block of the final response: executed, its report dropped.
TurnFinalExecute ==
    /\ pc = "turnFinalExec"
    /\ blocksLeft > 0
    /\ \E code \in TurnCodes : sandbox' = execute(sandbox, code).sandbox
    /\ blocksLeft' = blocksLeft - 1
    /\ execs' = execs + 1
    /\ UNCHANGED <<turnFrame, pc, i, iterations, totalUsage, response, result, finalRaw,
                   turnVars>>

\* After the final blocks: the final answer if there is one, else the raw
\* response; no event is emitted.
TurnFinalReturn ==
    /\ pc = "turnFinalExec"
    /\ blocksLeft = 0
    /\ result' = IF Truthy(getFinalAnswer(sandbox))
                 THEN FinalResult(iterations, totalUsage, sandbox)
                 ELSE FallbackResult(iterations, totalUsage, sandbox, response)
    /\ pc' = "done"
    /\ UNCHANGED <<turnFrame, i, iterations, totalUsage, response, blocksLeft, sandbox,
                   finalRaw, turnVars, execs>>

\* The root call of an iteration rejects: nothing catches the error, so it
\* leaves completion() after the two events emitted before the call.
TurnRootQueryRaises ==
    /\ pc = "turnLoop"
    /\ LoopCondition(i, maxIterations)
    /\ iterations' = i + 1
    /\ currentMessages' = messageHistory \o <<buildUserPrompt(call.prompt, i)>>
    /\ events' = events \o BeforeRootCall(i + 1)
    /\ pc' = "rootCallRaised"
    /\ UNCHANGED <<turnFrame, i, totalUsage, response, blocksLeft, result, sandbox, finalRaw,
                   messageHistory, codeBlocks, faultedBlocks, trace, execs>>

\* options.onEvent throws when it is handed an event: emit has no handler,
\* so the error leaves completion(). The callback is taken to throw at the
\* first event of an iteration or at the first event of a code block.
TurnOnEventThrows ==
    /\ \/ /\ pc = "turnLoop"
          /\ LoopCondition(i, maxIterations)
          /\ iterations' = i + 1
          /\ currentMessages' = messageHistory \o <<buildUserPrompt(call.prompt, i)>>
          /\ events' = Append(events, BeforeRootCall(i + 1)[1])
       \/ /\ pc = "turnExec"
          /\ blocksLeft > 0
          /\ \E code \in TurnCodes :
                events' = Append(events, Event("code_execution_start", iterations, code,
                                               <<>>, Absent, Absent))
          /\ UNCHANGED <<iterations, currentMessages>>
    /\ pc' = "onEventThrew"
    /\ UNCHANGED <<turnFrame, i, totalUsage, response, blocksLeft, result, sandbox, finalRaw,
                   messageHistory, codeBlocks, faultedBlocks, trace, execs>>

TurnNext ==
    \/ TurnRootQuery
    \/ TurnRootQueryRaises
    \/ TurnOnEventThrows
    \/ TurnExecute
    \/ TurnEndIteration
    \/ TurnFinalQuery
    \/ TurnFinalExecute
    \/ TurnFinalReturn

TurnSpec == TurnInit /\ [][TurnNext]_vars

\* ------------------------- programs that leave work behind or do not end
\* Programs: one that prints, one that prints a captured variable, one
\* that prints the context, one that assigns, one that sets a timer whose
\* callback prints, one that starts a sub-LLM call without awaiting it, one
\* that awaits a sub-LLM call and prints the response, one that loops
\* forever, and one that awaits a promise nothing settles.
PrintCode == "print('a')"
ReadCode == "print(__locals__.x)"
TimerCode == "setTimeout(() => print('late'), 10)"
StrayCode == "llm_query('p')"
AwaitCode == "print(await llm_query('q'))"
SpinCode == "while (true) {}"
HangCode == "await new Promise(() => {})"

AsyncCodes ==
    {PrintCode, ReadCode, ContextCode, OkCode, TimerCode, StrayCode, AwaitCode, SpinCode, HangCode}

\* String(value) of a variable that may be missing.
StringOf(v) == IF v = Absent THEN "undefined" ELSE v

\* The Sandbox after the part of a program that runs before its first
\* await.
SyncRun(sb, code) ==
    CASE code = PrintCode -> print(sb, "a")
      [] code = ReadCode -> print(sb, StringOf(sb.locals["x"]))
      [] code = ContextCode -> print(sb, sb.context)
      [] OTHER -> sb

\* The globals the program has assigned.
SyncGlobals(code) ==
    IF code = OkCode THEN RunStmtGlobals(NoLocals, Parse(code).stmts[1]) ELSE NoLocals

\* The sub-LLM call of AwaitCode, which the client answers.
AwaitedCall == CHOOSE st \in Stmts : st.op = "llm_query" /\ st.arg = "ok"

\* The Sandbox after the awaited call resolved and the rest of the program
\* ran.
Resume(sb, code) ==
    LET st == [AwaitedCall EXCEPT !.val = "q"]
    IN  print(llmQuery(sb, st), llmQueryReturn(st).value)

\* Where the program is after its synchronous part.
After(code) ==
    CASE code = AwaitCode -> "asyncWait"
      [] code = SpinCode -> "asyncSpin"
      [] code = HangCode -> "asyncHang"
      [] OTHER -> "asyncEnd"

\* The report of execute(code) on a newly made Sandbox with the same
\* context, for a program that ends.
FreshRun(context, code) ==
    LET ctx == createContext(loadContext(NewSandbox, context))
        ran == SyncRun(ctx, code)
        done == IF code = AwaitCode THEN Resume(ran, code) ELSE ran
    IN  IF code = SpinCode THEN Report(ctx, TimeoutFault)
        ELSE Report(syncLocals(done, SyncGlobals(code)), Null)

\* n copies of an owner.
Owned(n, owner) == [k \in 1..n |-> owner]

AsyncInit ==
    /\ maxIterations = 0
    /\ pc = "async"
    /\ i = 0
    /\ iterations = 0
    /\ totalUsage = ZeroUsage
    /\ response = ""
    /\ blocksLeft = 0
    /\ sandbox = loadContext(NewSandbox, ContextPayload)
    /\ globals = NoLocals
    /\ steps = 0
    /\ result = NoResult
    /\ rootLog = EmptyBag
    /\ subLog = EmptyBag
    /\ loopSet = FALSE
    /\ finalTurnSets = {}
    /\ finalRaw = Null
    /\ firstAnswer = Null
    /\ execs = 0
    /\ fault = Null
    /\ report = NoReport
    /\ faulted = Null
    /\ heldAnswer = Null
    /\ priorAnswer = Null
    /\ shapes = {}
    /\ messageHistory = <<>>
    /\ currentMessages = <<>>
    /\ codeBlocks = <<>>
    /\ events = <<>>
    /\ faultedBlocks = <<>>
    /\ trace = <<>>
    /\ batch = NoBatch
    /\ late = NoLate
    /\ call = NoCall
    /\ runs = NoRuns

asyncFrame ==
    <<driverVars, steps, firstAnswer, fault, faulted, heldAnswer, priorAnswer, shapes,
      turnVars, batch, apiVars>>

\* A caller calls execute(code): createContext, then the program runs up
\* to its first await, or to its end, or into its loop.
AsyncExecute ==
    /\ pc = "async"
    /\ execs < MaxExecs
    /\ \E code \in AsyncCodes :
        /\ sandbox' = SyncRun(createContext(sandbox), code)
        /\ globals' = SyncGlobals(code)
        /\ late' = [late EXCEPT
                      !.code = code,
                      !.elapsed = FALSE,
                      !.timers = IF code = TimerCode THEN @ \cup {execs + 1} ELSE @,
                      !.calls = IF code = StrayCode THEN @ \cup {execs + 1} ELSE @,
                      !.outOwners = Owned(Len(sandbox'.stdout), execs + 1),
                      !.callOwners = <<>>,
                      !.fresh = IF late.fresh = "reset" THEN "running" ELSE "no"]
        /\ pc' = After(code)
    /\ execs' = execs + 1
    /\ UNCHANGED <<asyncFrame, report>>

\* The timer of a program fires, while an execute awaits or between two
\* executes: its callback prints through the Sandbox.
LateTimerFires ==
    /\ pc \in {"async", "asyncWait", "asyncHang"}
    /\ \E owner \in late.timers :
        /\ sandbox' = print(sandbox, "late")
        /\ late' = [late EXCEPT !.timers = @ \ {owner},
                                !.outOwners = Append(@, owner)]
    /\ UNCHANGED <<asyncFrame, pc, globals, execs, report>>

\* The client answers a call that its program did not await.
StrayCallCompletes ==
    /\ pc \in {"async", "asyncWait", "asyncHang"}
    /\ \E owner \in late.calls :
        /\ sandbox' = llmQuery(sandbox, [AwaitedCall EXCEPT !.val = "p"])
        /\ late' = [late EXCEPT !.calls = @ \ {owner},
                                !.callOwners = Append(@, owner)]
    /\ UNCHANGED <<asyncFrame, pc, globals, execs, report>>

\* The client answers the call the running program awaits; the program
\* prints the response and ends.
AwaitedCallCompletes ==
    /\ pc = "asyncWait"
    /\ sandbox' = Resume(sandbox, late.code)
    /\ late' = [late EXCEPT !.outOwners = Append(@, execs),
                            !.callOwners = Append(@, execs)]
    /\ pc' = "asyncEnd"
    /\ UNCHANGED <<asyncFrame, globals, execs, report>>

\* The timeout of the running execute elapses.
TimeoutElapses ==
    /\ pc \in {"asyncWait", "asyncSpin", "asyncHang"}
    /\ ~late.elapsed
    /\ late' = [late EXCEPT !.elapsed = TRUE]
    /\ UNCHANGED <<asyncFrame, pc, sandbox, globals, execs, report>>

\* runInContext gives up on a script that is still running synchronously
\* when the timeout has elapsed; the outer catch returns the report.
ScriptTimedOut ==
    /\ pc = "asyncSpin"
    /\ late.elapsed
    /\ report' = Report(sandbox, TimeoutFault)
    /\ late' = [late EXCEPT
                  !.reported = [exec |-> execs, out |-> late.outOwners, calls |-> late.callOwners],
                  !.fresh = IF @ = "running" THEN "returned" ELSE @]
    /\ globals' = NoLocals
    /\ pc' = "async"
    /\ UNCHANGED <<asyncFrame, sandbox, execs>>

\* The program has ended: locals are captured and execute() returns.
AsyncExecuted ==
    /\ pc = "asyncEnd"
    /\ sandbox' = syncLocals(sandbox, globals)
    /\ report' = Report(sandbox', Null)
    /\ late' = [late EXCEPT
                  !.reported = [exec |-> execs, out |-> late.outOwners, calls |-> late.callOwners],
                  !.fresh = IF @ = "running" THEN "returned" ELSE @]
    /\ globals' = NoLocals
    /\ pc' = "async"
    /\ UNCHANGED <<asyncFrame, execs>>

\* A caller calls reset().
AsyncReset ==
    /\ pc = "async"
    /\ execs > 0
    /\ late.fresh # "reset"
    /\ sandbox' = reset(sandbox)
    /\ late' = [late EXCEPT !.outOwners = <<>>, !.callOwners = <<>>, !.fresh = "reset"]
    /\ UNCHANGED <<asyncFrame, pc, globals, execs, report>>

AsyncNext ==
    \/ AsyncExecute
    \/ LateTimerFires
    \/ StrayCallCompletes
    \/ AwaitedCallCompletes
    \/ TimeoutElapses
    \/ ScriptTimedOut
    \/ AsyncExecuted
    \/ AsyncReset

AsyncSpec == AsyncInit /\ [][AsyncNext]_vars

\* The client answers and timers fire; nothing else is assumed.
FairAsyncSpec == AsyncSpec /\ WF_vars(AsyncNext)

\* ------------------------------------------------- functions on their own
\* The state in which a function of the library is called on its own: the
\* caller's position, the iteration index, the text, the arguments and the
\* completions that run are given, nothing else has happened.
CalledAlone(position, index, text, arguments, running) ==
    /\ maxIterations = 0
    /\ pc = position
    /\ i = index
    /\ iterations = 0
    /\ totalUsage = ZeroUsage
    /\ response = text
    /\ blocksLeft = 0
    /\ sandbox = NewSandbox
    /\ globals = NoLocals
    /\ steps = 0
    /\ result = NoResult
    /\ rootLog = EmptyBag
    /\ subLog = EmptyBag
    /\ loopSet = FALSE
    /\ finalTurnSets = {}
    /\ finalRaw = Null
    /\ firstAnswer = Null
    /\ execs = 0
    /\ fault = Null
    /\ report = NoReport
    /\ faulted = Null
    /\ heldAnswer = Null
    /\ priorAnswer = Null
    /\ shapes = {}
    /\ messageHistory = <<>>
    /\ currentMessages = <<>>
    /\ codeBlocks = <<>>
    /\ events = <<>>
    /\ faultedBlocks = <<>>
    /\ trace = <<>>
    /\ batch = NoBatch
    /\ late = NoLate
    /\ call = arguments
    /\ runs = running

\* The strings made by joining at most n pieces.
RECURSIVE Joined(_, _)
Joined(pieces, n) ==
    IF n = 0 THEN {""}
    ELSE Joined(pieces, n - 1) \cup {s \o p : s \in Joined(pieces, n - 1), p \in pieces}

\* Prompts of a caller: letters, dollar signs, the characters that follow a
\* dollar sign in a replacement pattern, and the placeholder of the template.
CallerPrompts == Joined({"a", "$", "&", "'", "{rootPrompt}"}, MaxPromptPieces)

PromptInit ==
    \E prompt \in CallerPrompts, index \in 0..MaxIter :
        CalledAlone("prompt", index, "", [prompt |-> prompt], NoRuns)

\* buildUserPrompt(prompt, i) is called.
PromptBuilt ==
    /\ pc = "prompt"
    /\ currentMessages' = <<buildUserPrompt(call.prompt, i)>>
    /\ pc' = "prompted"
    /\ UNCHANGED <<driverVars, sandbox, globals, steps, firstAnswer, execs, fault, aloneVars,
                   messageHistory, codeBlocks, events, faultedBlocks, trace, batch, late,
                   apiVars>>

PromptNext == PromptBuilt

PromptSpec == PromptInit /\ [][PromptNext]_vars

\* In the texts of root responses a tilde stands for a backquote.
OpenFence == "~~~repl"
CloseFence == "\n~~~"

\* What \s of a regular expression matches.
IsSpace(c) == c \in {" ", "\n", "\t"}

\* s.trim()
RECURSIVE trim(_)
trim(s) ==
    IF s = "" THEN ""
    ELSE IF IsSpace(SubSeq(s, 1, 1)) THEN trim(SubSeq(s, 2, Len(s)))
    ELSE IF IsSpace(SubSeq(s, Len(s), Len(s))) THEN trim(SubSeq(s, 1, Len(s) - 1))
    ELSE s

\* The positions from s on at which a newline and a fence begin.
Closings(text, s) ==
    {e \in s..(Len(text) - 3) : SubSeq(text, e, e + 3) = CloseFence}

\* The largest number from a non-empty set, and the smallest.
Largest(S) == CHOOSE n \in S : \A m \in S : m <= n
Smallest(S) == CHOOSE n \in S : \A m \in S : n <= m

\* pattern.exec(text) from position p on, again and again: the fence and
\* "repl", then \s* (as much whitespace as still lets the rest match), a
\* newline, the payload (as short as possible), a newline and a fence; the
\* search goes on behind the match.
RECURSIVE ExecFrom(_, _)
ExecFrom(text, p) ==
    IF p + Len(OpenFence) - 1 > Len(text) THEN <<>>
    ELSE IF SubSeq(text, p, p + Len(OpenFence) - 1) # OpenFence THEN ExecFrom(text, p + 1)
    ELSE LET q == p + Len(OpenFence)
             spaces == {w \in 0..(Len(text) - q + 1) :
                            \A j \in 0..(w - 1) : IsSpace(SubSeq(text, q + j, q + j))}
             matching == {w \in spaces : /\ q + w <= Len(text)
                                         /\ SubSeq(text, q + w, q + w) = "\n"
                                         /\ Closings(text, q + w + 1) # {}}
         IN  IF matching = {} THEN ExecFrom(text, p + 1)
             ELSE LET s == q + Largest(matching) + 1
                      e == Smallest(Closings(text, s))
                      codeContent == trim(SubSeq(text, s, e - 1))
                  IN  (IF codeContent # "" THEN <<codeContent>> ELSE <<>>)
                      \o ExecFrom(text, e + Len(CloseFence))

\* findCodeBlocks(text).
findCodeBlocks(text) == ExecFrom(text, 1)

\* Root responses: fences, newlines, spaces and other text.
ResponseTexts == Joined({OpenFence, "~~~", "\n", " ", "x"}, MaxTextPieces)

ParseInit == \E text \in ResponseTexts : CalledAlone("parse", 0, text, NoCall, NoRuns)

\* The Driver finds the code blocks of a response; each is paired with the
\* report of an execution that printed nothing.
BlocksFound ==
    /\ pc = "parse"
    /\ codeBlocks' = [k \in 1..Len(findCodeBlocks(response)) |->
                        [code |-> findCodeBlocks(response)[k],
                         result |-> Report(NewSandbox, Null)]]
    /\ pc' = "found"
    /\ UNCHANGED <<driverVars, sandbox, globals, steps, firstAnswer, execs, fault, aloneVars,
                   messageHistory, currentMessages, events, faultedBlocks, trace, batch, late,
                   apiVars>>

\* formatIteration(response, codeBlocks) is called.
IterationFormatted ==
    /\ pc = "found"
    /\ messageHistory' = formatIteration(response, codeBlocks)
    /\ pc' = "formatted"
    /\ UNCHANGED <<driverVars, sandbox, globals, steps, firstAnswer, execs, fault, aloneVars,
                   currentMessages, codeBlocks, events, faultedBlocks, trace, batch, late,
                   apiVars>>

ParseNext ==
    \/ BlocksFound
    \/ IterationFormatted

ParseSpec == ParseInit /\ [][ParseNext]_vars

\* ------------------------------------------------------- generateObject
\* RLLM.generateObject(prompt, schemas, options), as its declarations and
\* its tests describe it: the input is validated, then the client is asked
\* until a response parses and satisfies outputSchema.  Here i counts the
\* attempts made, rootLog holds the client calls, events the onRetry calls.

\* The usage the client reports with a response.
ObjectUsages ==
    { [promptTokens |-> 5, completionTokens |-> 4, totalTokens |-> 9],
      [promptTokens |-> 6, completionTokens |-> 4, totalTokens |-> 10] }

\* What the check of a response gives.
Verdicts == {"valid", "json_parse", "schema_validation"}

\* Total attempts = maxRetries + 1.
TotalAttemptsWithoutFirst(maxRetries) == maxRetries

TotalAttempts(maxRetries) == maxRetries + 1

\* The GenerateObjectRetryEvent of a failed attempt.
RetryEvent(attempt, maxRetries, errorType) ==
    [attempt |-> attempt, maxRetries |-> maxRetries, errorType |-> errorType]

\* The GenerateObjectResult of the attempt that succeeded.
ObjectResult(attempts, calls, usage) ==
    [object |-> "parsed", attempts |-> attempts,
     usage |-> [totalCalls |-> calls, tokenUsage |-> usage]]

\* The errors generateObject rejects with.
InputInvalid == [error |-> "input failed inputSchema validation"]
RetriesExhausted(attempts) ==
    [error |-> "generateObject failed after " \o ToString(attempts) \o " attempt(s)"]

GenerateInit ==
    \E maxRetries \in 0..MaxRetries, inputValid \in BOOLEAN :
        CalledAlone("generate", 0, "", [maxRetries |-> maxRetries, inputValid |-> inputValid],
                    NoRuns)

generateFrame ==
    <<maxIterations, iterations, response, blocksLeft, subLog, loopSet, finalTurnSets,
      finalRaw, sandbox, globals, steps, firstAnswer, execs, fault, aloneVars,
      messageHistory, currentMessages, codeBlocks, faultedBlocks, trace, batch, late,
      apiVars>>

\* The input is checked against inputSchema before anything else.
InputValidated ==
    /\ pc = "generate"
    /\ IF call.inputValid
       THEN pc' = "attempt" /\ UNCHANGED result
       ELSE pc' = "rejected" /\ result' = InputInvalid
    /\ UNCHANGED <<generateFrame, i, totalUsage, rootLog, events>>

\* One attempt: the client is called and its response checked; a failed
\* attempt is reported to onRetry when a retry follows it.
Attempt ==
    /\ pc = "attempt"
    /\ i < TotalAttempts(call.maxRetries)
    /\ \E usage \in ObjectUsages, verdict \in Verdicts :
        /\ rootLog' = rootLog (+) SetToBag({[usage |-> usage, turn |-> i + 1]})
        /\ totalUsage' = addUsage(totalUsage, usage)
        /\ IF verdict = "valid"
           THEN /\ result' = ObjectResult(i + 1, BagCardinality(rootLog'), totalUsage')
                /\ pc' = "resolved"
                /\ UNCHANGED events
           ELSE IF i + 1 < TotalAttempts(call.maxRetries)
           THEN /\ events' = Append(events, RetryEvent(i + 1, call.maxRetries, verdict))
                /\ UNCHANGED <<pc, result>>
           ELSE /\ result' = RetriesExhausted(i + 1)
                /\ pc' = "rejected"
                /\ UNCHANGED events
    /\ i' = i + 1
    /\ UNCHANGED generateFrame

GenerateNext ==
    \/ InputValidated
    \/ Attempt

GenerateSpec == GenerateInit /\ [][GenerateNext]_vars

\* ------------------------------------------- two completions, one RLLM
\* Two completion() calls run on one RLLM instance and take turns at their
\* awaits.  The instance holds the client, the config and the system prompt;
\* what a call works on are the locals of completion().

\* The locals of a completion() call after its setup.
NewRun(context, prompt) ==
    [pc |-> "loop", prompt |-> prompt, i |-> 0, iterations |-> 0, totalUsage |-> ZeroUsage,
     sandbox |-> loadContext(NewSandbox, context),
     messageHistory |-> InitialMessages(context), trace |-> <<>>,
     response |-> "", pending |-> <<>>, codeBlocks |-> <<>>, result |-> NoResult,
     heard |-> <<>>]

\* The blocks of a response and the responses of the root LLM.
PairCodes == {OkCode, FinalVarCode, QueryCode}
PairResponses ==
    [content : {"r1"}, usage : Usages, codes : {<<>>} \cup {<<code>> : code \in PairCodes}]
NoResponse == [content |-> "", usage |-> ZeroUsage, codes |-> <<>>]

\* The Sandbox a completion() call works on: the one it created.
SandboxOfInstance(rs, c) == rs[1].sandbox

SandboxOf(rs, c) == rs[c].sandbox

\* completion() from one await to the next, on the Sandbox sb: a root call
\* answered with r, a code block executed, or the end of an iteration.
RunStep(run, sb, r) ==
    CASE run.pc = "loop" /\ LoopCondition(run.i, PairIterations) ->
            [run EXCEPT !.iterations = run.i + 1,
                        !.totalUsage = addUsage(@, r.usage),
                        !.response = r.content,
                        !.pending = r.codes,
                        !.codeBlocks = <<>>,
                        !.trace = Append(@, LLMCallEntry(run.i + 1,
                                            run.messageHistory
                                            \o <<buildUserPrompt(run.prompt, run.i)>>,
                                            r.content)),
                        !.pc = "exec"]
      [] run.pc = "loop" /\ ~LoopCondition(run.i, PairIterations) ->
            [run EXCEPT !.totalUsage = addUsage(@, r.usage),
                        !.response = r.content,
                        !.pending = r.codes,
                        !.pc = "finalExec"]
      [] run.pc = "exec" /\ run.pending # <<>> ->
            LET ex == execute(sb, Head(run.pending))
                ran == [run EXCEPT !.sandbox = ex.sandbox,
                                   !.codeBlocks = Append(@, [code |-> Head(run.pending),
                                                             result |-> ex.result]),
                                   !.trace = @ \o <<ToolCallEntry(Head(run.pending)),
                                                    ToolResultEntry(ex.result)>>]
            IN  IF Truthy(getFinalAnswer(ex.sandbox))
                THEN [ran EXCEPT !.result = LoopResult(run.iterations, run.totalUsage, ex.sandbox),
                                 !.pc = "done"]
                ELSE [ran EXCEPT !.pending = Tail(@)]
      [] run.pc = "exec" /\ run.pending = <<>> ->
            [run EXCEPT !.messageHistory =
                            ExtendHistory(@, formatIteration(run.response, run.codeBlocks)),
                        !.i = @ + 1,
                        !.pc = "loop"]
      [] run.pc = "finalExec" /\ run.pending # <<>> ->
            [run EXCEPT !.sandbox = execute(sb, Head(run.pending)).sandbox,
                        !.pending = Tail(@)]
      [] run.pc = "finalExec" /\ run.pending = <<>> ->
            [run EXCEPT !.result =
                            IF Truthy(getFinalAnswer(sb))
                            THEN FinalResult(run.iterations, run.totalUsage, sb)
                            ELSE FallbackResult(run.iterations, run.totalUsage, sb, run.response),
                        !.pc = "done"]
      [] OTHER -> run

PairInit ==
    CalledAlone("pair", 0, "", NoCall, <<NewRun("alpha", "prompt"), NewRun("omicron", "prompt")>>)

pairFrame ==
    <<driverVars, pc, sandbox, globals, steps, firstAnswer, execs, fault, aloneVars, turnVars,
      batch, late, call>>

\* The root LLM answers the root call of one of the completions.
PairRootAnswered ==
    /\ \E c \in 1..2, r \in PairResponses :
        /\ runs[c].pc = "loop"
        /\ runs' = [runs EXCEPT ![c] = [RunStep(runs[c], SandboxOf(runs, c), r)
                                            EXCEPT !.heard = Append(@, r)]]
    /\ UNCHANGED pairFrame

\* One of the completions gets a code block executed.
PairExecuted ==
    /\ \E c \in 1..2 :
        /\ runs[c].pc \in {"exec", "finalExec"}
        /\ runs[c].pending # <<>>
        /\ runs' = [runs EXCEPT ![c] = RunStep(runs[c], SandboxOf(runs, c), NoResponse)]
    /\ UNCHANGED pairFrame

\* One of the completions ends an iteration or returns after the final
\* request.
PairIterationEnded ==
    /\ \E c \in 1..2 :
        /\ runs[c].pc \in {"exec", "finalExec"}
        /\ runs[c].pending = <<>>
        /\ runs' = [runs EXCEPT ![c] = RunStep(runs[c], SandboxOf(runs, c), NoResponse)]
    /\ UNCHANGED pairFrame

PairNext ==
    \/ PairRootAnswered
    \/ PairExecuted
    \/ PairIterationEnded

PairSpec == PairInit /\ [][PairNext]_vars

\* ------------------------------------------------------------- claims
\* Sum of the usages of the calls of a log.
RECURSIVE SumLog(_)
SumLog(log) ==
    IF BagToSet(log) = {} THEN ZeroUsage
    ELSE LET e == CHOOSE x \in BagToSet(log) : TRUE
         IN  addUsage(e.usage, SumLog(log (-) SetToBag({e})))

\* Number of the Driver's final-request calls.
FinalRequests ==
    BagCardinality([e \in {x \in BagToSet(rootLog) : x.turn = "final"} |-> rootLog[e]])

Returned == pc = "done"

\* C1: in every returned result, usage.subCalls is the number of sub-LLM
\* call records over all the ExecutionReports of the completion.
C1_SubCallsCountEveryReport ==
    Returned => result.usage.subCalls = BagCardinality(subLog)

\* C2: in every returned result, usage.tokenUsage is, component by
\* component, the sum of the usages of every root call and of every sub-LLM
\* call of any program executed.
C2_TokenUsageSumsEveryCall ==
    Returned => result.usage.tokenUsage = addUsage(SumLog(rootLog), SumLog(subLog))

\* C3: in every returned result, usage.rootCalls is the number of
\* CompletionService calls the Driver itself made, on every return path.
C3_RootCallsCountDriverCalls ==
    Returned => result.usage.rootCalls = BagCardinality(rootLog)

C3_Witness ==
    /\ Returned
    /\ FinalRequests = 1
    /\ result.answer.type = "string"
    /\ result.usage.rootCalls = 3

\* C4: in every returned result, totalCalls = rootCalls + subCalls.
C4_TotalIsRootPlusSub ==
    Returned => result.usage.totalCalls = result.usage.rootCalls + result.usage.subCalls

C4_Witness ==
    /\ Returned
    /\ result.usage.rootCalls = 2
    /\ result.usage.subCalls = 2
    /\ result.usage.totalCalls = 4

\* C5: for every maxIterations >= 0 the returned result has
\* 1 <= iterations <= maxIterations + 1.
C5_IterationsWithinBounds ==
    Returned => (1 <= result.iterations /\ result.iterations <= maxIterations + 1)

C5_Witness ==
    /\ Returned
    /\ maxIterations = 0
    /\ result.iterations = 1
    /\ result.answer.type = "object"

\* C6: when every call and every execution returns, completion() returns;
\* it never makes more than maxIterations + 1 root calls; and when no
\* execution of the loop set the final answer it makes exactly one
\* final-request call and returns iterations = maxIterations + 1.
C6_Terminates ==
    /\ <>Returned
    /\ [](BagCardinality(rootLog) <= maxIterations + 1)
    /\ []((Returned /\ ~loopSet) =>
            (FinalRequests = 1 /\ result.iterations = maxIterations + 1))

C6_Witness ==
    /\ Returned
    /\ ~loopSet
    /\ maxIterations = 2
    /\ BagCardinality(rootLog) = 3
    /\ result.iterations = 3

\* C7: as soon as an execute of the main loop leaves the final answer
\* set, the Driver returns that answer: the step in which that execute
\* returns ends the completion.
C7_ReturnsAtOnce ==
    [][(pc = "run" /\ pc' # "run" /\ getFinalAnswer(sandbox') # Null)
        => (pc' = "done" /\ result'.answer = StringAnswer(getFinalAnswer(sandbox')))]_vars

\* C8: in the final-request turn, if a code block set the final answer
\* through a final-answer binding, the result's answer is a final answer
\* set in that turn, whichever block set it.  (Stated for non-empty
\* answers: the empty one is C7's case.)
C8_FinalTurnAnswerReturned ==
    (Returned /\ finalTurnSets # {} /\ "" \notin finalTurnSets)
        => result.answer \in {StringAnswer(v) : v \in finalTurnSets}

\* C9: when the iteration limit was reached and no final answer is set
\* after the code blocks of the final response ran, the answer is
\* { message: raw content of the final response, data: undefined }.
C9_RawTextFallback ==
    (Returned /\ FinalRequests = 1 /\ getFinalAnswer(sandbox) = Null)
        => result.answer = [type |-> "object", message |-> finalRaw, data |-> Undefined]

C9_Witness ==
    /\ Returned
    /\ maxIterations = 0
    /\ finalRaw = "r2"
    /\ getFinalAnswer(sandbox) = Null
    /\ getLLMCalls(sandbox) # <<>>
    /\ result.answer.message = "r2"

\* C10: the final answer of a Sandbox is set at most once: once a
\* final-answer binding was given a value, getFinalAnswer() keeps
\* returning that first value (until reset()).
C10_SetAtMostOnce ==
    firstAnswer # Null => getFinalAnswer(sandbox) = firstAnswer

\* C11: the final answer persists across executions of a Sandbox: after an
\* execute that set it, executes whose programs do not call a final-answer
\* binding leave getFinalAnswer() equal to the value set (until reset()).
C11_FinalAnswerPersists ==
    (pc = "sandbox" /\ heldAnswer # Null) => getFinalAnswer(sandbox) = heldAnswer

\* C12: an execute whose program calls the final-answer binding only with
\* an invalid shape (message missing or not a string) leaves
\* getFinalAnswer() equal to the value it had before that execute.
C12_InvalidShapeIgnored ==
    (pc = "sandbox" /\ execs > 0 /\ shapes = {"invalid"})
        => getFinalAnswer(sandbox) = priorAnswer

\* C14: for a program that raised a fault (a runtime error or a syntax
\* error) execute returns a report whose error field is set.
C14_FaultSetsError ==
    faulted # Null => report.error # Absent

\* C13: every returned result has an answer of shape { message: string,
\* data? }, and the answer field of the final_answer event is that message.
C13_AnswerShape ==
    Returned =>
        /\ result.answer.type = "object"
        /\ result.answer.message \notin {Undefined, Null, Absent}
        /\ \A k \in 1..Len(events) :
              events[k].type = "final_answer" => events[k].answer = result.answer.message

\* The number of the root call that currentMessages was sent with.
CallNo == IF finalRaw # Null THEN iterations + 1 ELSE iterations

\* A user message that carries the code of a faulted block and its error.
Carries(m, f) ==
    /\ m.role = "user"
    /\ \E a \in 1..Len(m.content) : m.content[a] = f.code
    /\ \E b \in 1..Len(m.content) : m.content[b] = f.error

FedBack(f) == \E j \in 1..Len(currentMessages) : Carries(currentMessages[j], f)

\* After a fault the Sandbox runs a later program normally: its report has
\* no error output and the variable it assigns is captured.
LaterProgramsRun ==
    \A k \in 1..Len(codeBlocks) :
        codeBlocks[k].code = OkCode =>
            /\ codeBlocks[k].result.stderr = <<>>
            /\ codeBlocks[k].result.error = Absent
            /\ codeBlocks[k].result.locals["x"] = "a"

ExpectedValue(k) ==
    IF batch.outcomes[k] = "fail" THEN LLMQueryFailed(ClientError)
    ELSE ResponseTo(batch.prompts[k])

\* C16: llm_query never raises into the program: the awaited llm_query or
\* llm_query_batched is fulfilled, not rejected; a call whose client call
\* failed gives the error string, in its own slot of a batch, and the other
\* calls give their responses.
C16_LLMQueryNeverRaises ==
    pc = "batchDone" =>
        /\ batch.returned.state = "fulfilled"
        /\ \A k \in 1..Len(batch.prompts) :
              /\ batch.outcomes[k] = "fail" => batch.returned.values[k] = LLMQueryFailed(ClientError)
              /\ batch.outcomes[k] = "ok" => batch.returned.values[k] = ResponseTo(batch.prompts[k])

C16_Witness ==
    /\ pc = "batchDone"
    /\ batch.kind = "llm_query_batched"
    /\ batch.outcomes = <<"fail", "ok">>
    /\ batch.returned.state = "fulfilled"
    /\ batch.returned.values = <<LLMQueryFailed(ClientError), ResponseTo(batch.prompts[2])>>

\* The report of a program that called one of the sub-LLM bindings.
Reported == pc = "batch" /\ batch.kind # "none"

\* C17: every llm_query invocation appends one record, also when the client
\* call fails, so a report has as many records as the program made
\* llm_query invocations.
C17_OneRecordPerInvocation ==
    Reported => Len(report.llmCalls) = Len(batch.prompts)

\* C18: for every order of completion the sequence llm_query_batched gives
\* is as long as the prompts, and its element i is the response or error
\* string of the call made for prompt i.
C18_BatchedIndexAligned ==
    (pc = "batchDone" /\ batch.kind = "llm_query_batched") =>
        /\ Len(batch.returned.values) = Len(batch.prompts)
        /\ \A k \in 1..Len(batch.prompts) : batch.returned.values[k] = ExpectedValue(k)

C18_Witness ==
    /\ pc = "batchDone"
    /\ batch.kind = "llm_query_batched"
    /\ batch.prompts = <<"p", "q">>
    /\ batch.order = <<2, 1>>
    /\ batch.returned.values = <<ResponseTo("p"), ResponseTo("q")>>

\* The prompts of the calls that left a record, in the order the calls
\* were initiated, which for a batch is the order of the prompts.
InitiationOrder ==
    LET made == SelectSeq([k \in 1..Len(batch.prompts) |-> k],
                          LAMBDA k : batch.outcomes[k] = "ok")
    IN  [j \in 1..Len(made) |-> batch.prompts[made[j]]]

\* The prompts of the records of the report, in the order of the records.
RecordedOrder == [j \in 1..Len(report.llmCalls) |-> report.llmCalls[j].prompt]

\* C19: the records of a report are in the order in which the calls were
\* initiated, whatever the order in which they complete.
C19_RecordsInInitiationOrder ==
    Reported => RecordedOrder = InitiationOrder

C22_LocalsPersist ==
    [][\A n \in VarNames :
          IF pc = "sandboxRun" /\ pc' = "sandbox"
          THEN /\ getLocal(sandbox', n) =
                     IF fault # SyntaxFault /\ globals[n] # Absent THEN globals[n]
                     ELSE getLocal(sandbox, n)
               /\ getLocals(sandbox')[n] = getLocal(sandbox', n)
               /\ report'.locals[n] = getLocal(sandbox', n)
          ELSE \/ getLocal(sandbox', n) = getLocal(sandbox, n)
               \/ /\ pc = "sandbox"
                  /\ sandbox' = reset(sandbox)]_vars

\* A name captured by an earlier execution is still there after an
\* execution whose program did not compile.
C22_Witness ==
    /\ pc = "sandbox"
    /\ execs >= 2
    /\ faulted = SyntaxFault
    /\ getLocal(sandbox, "x") = "b"
    /\ report.locals["x"] = "b"

\* Whether event b may come directly after event a.
MayFollow(a, b) ==
    CASE a.type = "iteration_start" ->
            b.type = "llm_query_start" /\ b.iteration = a.iteration
      [] a.type = "llm_query_start" ->
            b.type = "llm_query_end" /\ b.iteration = a.iteration
      [] a.type = "llm_query_end" ->
            \/ b.type = "code_execution_start" /\ b.iteration = a.iteration
            \/ b.type = "iteration_start" /\ b.iteration = a.iteration + 1
      [] a.type = "code_execution_start" ->
            b.type = "code_execution_end" /\ b.iteration = a.iteration /\ b.code = a.code
      [] a.type = "code_execution_end" ->
            \/ b.type \in {"code_execution_start", "final_answer"} /\ b.iteration = a.iteration
            \/ b.type = "iteration_start" /\ b.iteration = a.iteration + 1
      [] OTHER -> FALSE

\* The codes of the blocks of an iteration whose execution was reported as
\* ended, in the order of the events.
EndedCodes(iteration) ==
    LET ended == SelectSeq(events, LAMBDA e : e.type = "code_execution_end"
                                              /\ e.iteration = iteration)
    IN  [k \in 1..Len(ended) |-> ended[k].code]

C24_RootErrorEndsQuery ==
    pc = "rootCallRaised" =>
        /\ events[Len(events)].type = "llm_query_end"
        /\ events[Len(events)].iteration = iterations
        /\ events[Len(events)].error # Absent

\* C25: an exception thrown by the onEvent callback is swallowed:
\* completion() is never left because of it.
C25_OnEventThrowSwallowed == pc # "onEventThrew"

\* C26: the message history begins with the system message followed by
\* the assistant metadata message, both as buildSystemPrompt made them;
\* there is no other system message; and every root call is sent them
\* first.
C26_InitialMessagesKept ==
    /\ Len(messageHistory) >= 2
    /\ SubSeq(messageHistory, 1, 2) = InitialMessages(sandbox.context)
    /\ messageHistory[1].role = "system"
    /\ messageHistory[2].role = "assistant"
    /\ \A k \in 2..Len(messageHistory) : messageHistory[k].role # "system"
    /\ currentMessages # <<>> =>
            /\ SubSeq(currentMessages, 1, 2) = InitialMessages(sandbox.context)
            /\ \A k \in 2..Len(currentMessages) : currentMessages[k].role # "system"

C26_Witness ==
    /\ pc = "turnLoop"
    /\ i = 2
    /\ Len(messageHistory) > 4
    /\ SubSeq(messageHistory, 1, 2) = InitialMessages(sandbox.context)

\* The user turns buildUserPrompt makes.
UserTurns == {buildUserPrompt(call.prompt, j) : j \in 0..MaxIter}

\* C27: after the two initial messages the history kept by the Driver is
\* made of records (user, assistant, user*): every assistant response is
\* directly preceded by the user turn of its iteration.
C27_IterationRecords ==
    \A k \in 3..Len(messageHistory) :
        messageHistory[k].role = "assistant" => messageHistory[k - 1] \in UserTurns

\* The usage an entry of the trace accounts for: its data has none.
UsageOfEntry(e) == IF "usage" \in DOMAIN e.data THEN e.data.usage ELSE ZeroUsage

\* Sum of the usage over the llm_call entries of a trace.
RECURSIVE SumTrace(_)
SumTrace(entries) ==
    IF entries = <<>> THEN ZeroUsage
    ELSE IF Head(entries).type = "llm_call"
         THEN addUsage(SumTrace(Tail(entries)), UsageOfEntry(Head(entries)))
         ELSE SumTrace(Tail(entries))

\* C30: for every returned result the sum of the usage over the llm_call
\* entries of result.trace equals result.usage.tokenUsage.
C30_TraceUsageSums ==
    Returned => SumTrace(trace) = result.usage.tokenUsage

\* C21: the report of an execute() has in stdout and in its sub-LLM calls
\* only lines printed and calls made by the program of that execute, for
\* every interleaving of call completions and timers.
C21_ReportOfOneInvocation ==
    /\ \A j \in 1..Len(late.reported.out) : late.reported.out[j] = late.reported.exec
    /\ \A j \in 1..Len(late.reported.calls) : late.reported.calls[j] = late.reported.exec

\* The report is of an execute() called directly after reset().
ReExecuted == pc = "async" /\ late.fresh = "returned"

\* The report has the stdout and the locals of the same code run on a new
\* Sandbox, and the Sandbox still has its context.
SameAsFresh ==
    /\ report.stdout = FreshRun(ContextPayload, late.code).stdout
    /\ report.locals = FreshRun(ContextPayload, late.code).locals
    /\ sandbox.context = ContextPayload

\* C28: after any executes, reset() followed by execute(c) gives
\* the stdout and the locals that c gives on a new Sandbox with the same
\* context and client, and reset() keeps the client and the context.
C28_ResetRepeatable == ReExecuted => SameAsFresh

\* C29: every execute() call eventually returns.
C29_ExecuteReturns == (pc # "async") ~> (pc = "async")

\* The final_answer events handed to onEvent.
FinalAnswerEvents == SelectSeq(events, LAMBDA e : e.type = "final_answer")

\* C40: whenever completion() returns an answer set through the
\* final-answer binding, on the main-loop path or on the final-request path,
\* exactly one final_answer event was emitted and it is the last event; on
\* the raw-text fallback no final_answer event was emitted.
C40_FinalAnswerEvent ==
    Returned =>
        IF result.answer.type = "string"
        THEN /\ Len(FinalAnswerEvents) = 1
             /\ events[Len(events)].type = "final_answer"
        ELSE FinalAnswerEvents = <<>>

\* The name a block hands to FINAL_VAR, Null for the other blocks.
LookedUp(code) ==
    CASE code \in {FinalVarCode, AssignFinalVarCode} -> "x"
      [] code = UnassignedVarCode -> "toString"
      [] OTHER -> Null

\* Whether earlier executions captured a variable of that name.
Captured(sb, name) == name \in VarNames /\ getLocal(sb, name) # Absent

\* C39: FINAL_VAR(name) resolves the name against the locals captured by
\* earlier executions: a captured name gives its value, a name that is not
\* captured at call time (never assigned, or assigned only by the running
\* program) gives the error string, and the Driver returns what was stored
\* as the answer.
C39_FinalVarAgainstCaptured ==
    [][(pc = "turnExec" /\ pc' = "done"
        /\ LookedUp(codeBlocks'[Len(codeBlocks')].code) # Null)
       => LET name == LookedUp(codeBlocks'[Len(codeBlocks')].code)
          IN  /\ getFinalAnswer(sandbox') =
                    IF Captured(sandbox, name) THEN getLocal(sandbox, name)
                    ELSE NotFound(name)
              /\ result'.answer = StringAnswer(getFinalAnswer(sandbox'))]_vars

\* Whether a text holds a string.
Contains(lines, s) == \E k \in 1..Len(lines) : IndexOf(lines[k], s) # 0

\* Whether a message is the formatted report of an executed block.
IsReport(m) ==
    \E k \in 1..Len(events) :
        /\ events[k].type = "code_execution_end"
        /\ m = Message("user", <<"Code executed:", "<fence javascript>", events[k].code,
                                 "<fence>", "", "REPL output:">> \o Truncate(events[k].output))

\* C32: the raw context is never placed by the Driver into a root prompt:
\* the first message of every root call is the system prompt, the second
\* the context metadata, and every other message is the user turn made from
\* the caller's prompt, the final request, an earlier root response or the
\* formatted report of an executed block; outside those reports no message
\* holds the content of the context.
C32_NoRawContextInRootPrompt ==
    \A k \in 1..Len(currentMessages) :
        LET m == currentMessages[k]
        IN  /\ k = 1 => m = Message("system", <<SystemPrompt>>)
            /\ k = 2 => m.role = "assistant"
            /\ k > 2 => \/ m.role = "assistant" /\ \E r \in Contents : m.content = <<r>>
                        \/ m \in UserTurns \cup {finalPrompt}
                        \/ IsReport(m)
            /\ ~IsReport(m) => ~Contains(m.content, sandbox.context)

\* A root call of the second iteration whose messages hold the report of a
\* block that printed the context.
C32_Witness ==
    /\ pc = "turnExec"
    /\ iterations = 2
    /\ \E k \in 3..Len(currentMessages) :
        /\ IsReport(currentMessages[k])
        /\ Contains(currentMessages[k].content, sandbox.context)

\* The user message telling the root LLM of an executed block, made from
\* the code_execution_end event of the block.
ReportMessage(e) ==
    Message("user", <<"Code executed:", "<fence javascript>", e.code, "<fence>", "",
                      "REPL output:">> \o Truncate(e.output))

\* What iteration j added: the response of its root call, then one user
\* message per block executed in it, as onEvent was told of them.
RecordOf(j) ==
    LET answered == SelectSeq(events, LAMBDA e : e.type = "llm_query_end" /\ e.iteration = j)
        ran == SelectSeq(events, LAMBDA e : e.type = "code_execution_end" /\ e.iteration = j)
    IN  <<Message("assistant", answered[1].output)>>
        \o [k \in 1..Len(ran) |-> ReportMessage(ran[k])]

\* The records of the iterations 1..n, in order.
RECURSIVE RecordsUpTo(_)
RecordsUpTo(n) == IF n = 0 THEN <<>> ELSE RecordsUpTo(n - 1) \o RecordOf(n)

\* C36: the message list sent to the root LLM at a loop iteration is the
\* two initial messages, then for each earlier iteration its assistant
\* response followed by one user message per executed block, then the user
\* turn of the iteration; the user turn is only in the working copy, and
\* the history changes only at the end of an iteration.
C36_MessageListOfIteration ==
    /\ [](pc = "turnExec" =>
            /\ messageHistory = InitialMessages(sandbox.context) \o RecordsUpTo(iterations - 1)
            /\ currentMessages =
                    messageHistory \o <<buildUserPrompt(call.prompt, iterations - 1)>>)
    /\ [][messageHistory' # messageHistory =>
            /\ pc = "turnExec" /\ blocksLeft = 0 /\ pc' = "turnLoop"
            /\ messageHistory' = messageHistory \o RecordOf(iterations)]_vars

\* A root call of the second iteration after an iteration of two blocks.
C36_Witness ==
    /\ pc = "turnExec"
    /\ iterations = 2
    /\ Len(currentMessages) = 6
    /\ currentMessages[3].role = "assistant"
    /\ currentMessages[6] = buildUserPrompt(call.prompt, 1)

\* The response of the current iteration held no code block.
NoBlockFound == pc = "turnExec" /\ blocksLeft = 0 /\ codeBlocks = <<>>

\* No block was executed in the loop.
NothingExecuted == \A k \in 1..Len(events) : events[k].type # "code_execution_start"

\* C37: a response with no repl block causes no execution and no
\* code_execution event, appends only the assistant message to the history,
\* and the loop goes on; when every response has no block the final request
\* is made after exactly maxIterations root calls.
C37_ResponseWithoutBlock ==
    /\ [](NoBlockFound =>
            events[Len(events)] =
                Event("llm_query_end", iterations, Absent, <<response>>, Absent, Absent))
    /\ [][NoBlockFound =>
            /\ messageHistory' = Append(messageHistory, Message("assistant", <<response>>))
            /\ pc' = "turnLoop"
            /\ i' = i + 1
            /\ UNCHANGED <<sandbox, execs, events, result>>]_vars
    /\ []((pc = "turnFinalExec" /\ NothingExecuted) =>
            /\ iterations = maxIterations
            /\ Len(SelectSeq(events, LAMBDA e : e.type = "llm_query_end")) = maxIterations
            /\ Len(messageHistory) = 2 + maxIterations)

\* The final request after two responses without a block.
C37_Witness ==
    /\ pc = "turnFinalExec"
    /\ NothingExecuted
    /\ maxIterations = 2
    /\ Len(messageHistory) = 4
    /\ messageHistory[3].role = "assistant"
    /\ messageHistory[4].role = "assistant"

\* C34: for every prompt, also one that holds dollar signs or the text of
\* the placeholder, and every iteration index, the content of the user turn
\* holds the prompt verbatim between the quotation marks of the template.
C34_PromptVerbatim ==
    pc = "prompted" =>
        currentMessages[1].content =
            <<(IF i = 0 THEN Safeguard ELSE HistoryNote)
              \o PromptOpening \o call.prompt \o PromptClosing>>

\* The payloads of the fenced blocks of a text from position p on: a block
\* is opened by a line that ends with the fence and "repl" (spaces may
\* follow) and closed by the next line that begins with a fence; what is
\* between the two lines is its payload.
RECURSIVE FencedFrom(_, _)
FencedFrom(text, p) ==
    IF p + Len(OpenFence) - 1 > Len(text) THEN <<>>
    ELSE IF SubSeq(text, p, p + Len(OpenFence) - 1) # OpenFence THEN FencedFrom(text, p + 1)
    ELSE LET q == p + Len(OpenFence)
             ends == {n \in q..Len(text) :
                          /\ SubSeq(text, n, n) = "\n"
                          /\ \A j \in q..(n - 1) : SubSeq(text, j, j) \in {" ", "\t"}}
         IN  IF ends = {} THEN FencedFrom(text, p + 1)
             ELSE LET n == Smallest(ends)
                      closes == Closings(text, n)
                  IN  IF closes = {} THEN <<>>
                      ELSE LET c == Smallest(closes)
                               payload == trim(SubSeq(text, n + 1, c - 1))
                           IN  (IF payload # "" THEN <<payload>> ELSE <<>>)
                               \o FencedFrom(text, c + Len(CloseFence))

\* C33: findCodeBlocks returns, in order, exactly the payloads of the
\* non-overlapping fenced blocks opened by the fence with "repl" and closed
\* by a fence, each trimmed of surrounding whitespace and the empty ones
\* discarded, whatever text stands before, between and after the blocks; and
\* each payload is carried unchanged into the code section of the message
\* formatIteration builds for the block.
C33_FencedPayloads ==
    /\ pc \in {"found", "formatted"} =>
            [k \in 1..Len(codeBlocks) |-> codeBlocks[k].code] = FencedFrom(response, 1)
    /\ pc = "formatted" =>
            /\ Len(messageHistory) = Len(codeBlocks) + 1
            /\ \A k \in 1..Len(codeBlocks) :
                    messageHistory[k + 1].content[3] = codeBlocks[k].code

RECURSIVE Alone(_, _)
Alone(run, heard) ==
    IF run.pc = "done" THEN run
    ELSE IF run.pc # "loop" THEN Alone(RunStep(run, run.sandbox, NoResponse), heard)
    ELSE IF heard = <<>> THEN run
    ELSE Alone(RunStep(run, run.sandbox, Head(heard)), Tail(heard))

====
